---- MODULE Spec2Model ----
(***************************************************************************)
(* Boolean cube lists (bc): a model of the cube / cube-list algebra.       *)
(*                                                                         *)
(* A cube is a function from variable positions 0..var_cnt-1 to the        *)
(* two-bit codes 0 (illegal), 1 (zero), 2 (one), 3 (don't care).  A cube   *)
(* list carries cnt, the cubes list[0..cnt-1] and the flag bytes           *)
(* flags[0..cnt-1] (0 live, 1 marked as deleted), as struct bcl_struct.    *)
(* The problem handle p carries var_cnt.  Padding variables of a block are *)
(* always 11 and take no part in any result, so they are left out.         *)
(***************************************************************************)
EXTENDS Integers, Sequences, FiniteSets, TLC

\* ---------------------------------------------------------------- bounds
\* var_cnt ranges over 1..MaxVars, a list holds at most MaxLen cubes, and
\* var_cnt * (number of cubes) is at most MaxCells (Spec), MaxCellsC (SpecC)
\* or, for the two lists of a binary operation together, MaxCellsAB (SpecAB)
MaxVars == 3
MaxLen == 4
MaxCells == 8
MaxCellsC == 7
MaxCellsAB == 6
\* the scratch arena: at most MaxStackDepth nested frames and MaxTempCubes
\* temp cubes at a time (SpecStack)
MaxStackDepth == 3
MaxTempCubes == 33
\* the random tautology generator: target sizes 1 .. MaxGenSize on up to
\* MaxVars variables, and one list of BCL_EXTEND cubes on GrownVars variables
MaxGenSize == 5
GrownVars == 6

\* the number of cubes of the list the counter tables are taken from
CountedCubes == 32768
\* strings of cubes: up to MaxStrLen characters
MaxStrLen == 4
\* the command script: lists of up to MaxSlotCells \div var_cnt cubes on up
\* to MaxSlotVars variables
MaxSlotVars == 1
MaxSlotCells == 1
\* the other slot followed is one of the slots 1 .. MaxSlot
MaxSlot == 1

\* the number of commands of the JSON array that are followed
MaxCmds == 3

\* ------------------------------------------------------------- constants
\* cubes added to a list's storage by one bcp_ExtendBCL
BCL_EXTEND == 32
\* size of the array stack_frame_pos
BCP_MAX_STACK_FRAME_DEPTH == 500
\* number of slots of bc_ExecuteVector
SLOT_CNT == 9
\* the depth at which bcp_IsBCLTautologySub fails its assert, in
\* src/bc/bcltautology.c and in the copy of that file, src/unnamed/part_002
TautologyDepth == 2000
TautologyDepthPart002 == 1000

\* ------------------------------------------------------- two-bit helpers
Bit0(v) == v % 2
Bit1(v) == v \div 2
And2(x, y) == (Bit0(x) * Bit0(y)) + 2 * (Bit1(x) * Bit1(y))
Or2(x, y) == (IF Bit0(x) + Bit0(y) > 0 THEN 1 ELSE 0)
             + 2 * (IF Bit1(x) + Bit1(y) > 0 THEN 1 ELSE 0)
Not2(x) == 3 - x

VarPos(p) == 0 .. (p.var_cnt - 1)

\* --------------------------------------------------------- cube primitives
\* the problem handle.  The counter cubes (global cubes 4..19) are scratch
\* storage that every reader recalculates first; the table is the value of
\* bcp_CalcBCLBinateSplitVariableTable
bcp_New(var_cnt) == [var_cnt |-> var_cnt]

\* global cube 3: all variables don't care
bcp_GetGlobalCube3(p) == [i \in VarPos(p) |-> 3]

bcp_GetCubeVar(p, c, var_pos) == c[var_pos]

bcp_SetCubeVar(p, c, var_pos, value) == [c EXCEPT ![var_pos] = value]

bcp_CompareCube(p, a, b) == IF a = b THEN 0 ELSE 1

bcp_IsTautologyCube(p, c) == IF \A i \in VarPos(p) : c[i] = 3 THEN 1 ELSE 0

\* r = a & b; ok = 1 iff no field of r is 00
bcp_IntersectionCube(p, a, b) ==
  LET rr == [i \in VarPos(p) |-> And2(a[i], b[i])]
  IN  [r |-> rr, ok |-> IF \A i \in VarPos(p) : rr[i] # 0 THEN 1 ELSE 0]

bcp_IsIntersectionCube(p, a, b) ==
  IF \A i \in VarPos(p) : And2(a[i], b[i]) # 0 THEN 1 ELSE 0

\* popcount of the inverted cube: the number of 0 bits
RECURSIVE VariableCountLoop(_, _, _)
VariableCountLoop(p, cube, i) ==
  IF i >= p.var_cnt THEN 0
  ELSE (1 - Bit0(cube[i])) + (1 - Bit1(cube[i])) + VariableCountLoop(p, cube, i + 1)

bcp_GetCubeVariableCount(p, cube) == VariableCountLoop(p, cube, 0)

\* number of fields where a & b is 00
RECURSIVE CubeDeltaLoop(_, _, _, _)
CubeDeltaLoop(p, a, b, i) ==
  IF i >= p.var_cnt THEN 0
  ELSE (IF And2(a[i], b[i]) = 0 THEN 1 ELSE 0) + CubeDeltaLoop(p, a, b, i + 1)

bcp_GetCubeDelta(p, a, b) == CubeDeltaLoop(p, a, b, 0)

\* is "b" a subset of "a": a & b == b
bcp_IsSubsetCube(p, a, b) ==
  IF \A i \in VarPos(p) : And2(a[i], b[i]) = b[i] THEN 1 ELSE 0

\* ------------------------------------------------------------ sequencing
\* C runs its statements in order: Do(x, K) is K(x) with x evaluated first
Do(x, K(_)) == CASE x = x -> K(x)

\* ------------------------------------------------------- cube list core
bcp_NewBCL(p) == [cnt |-> 0, list |-> <<>>, flags |-> <<>>]

bcp_NewBCLByBCL(p, l) == l

\* a becomes a copy of b
bcp_CopyBCL(p, a, b) == b

bcp_ClearBCL(p, l) == [cnt |-> 0, list |-> <<>>, flags |-> <<>>]

bcp_GetBCLCube(p, l, pos) == l.list[pos + 1]

Flag(l, pos) == l.flags[pos + 1]

SetFlag(l, pos, f) == [l EXCEPT !.flags[pos + 1] = f]

SetBCLCube(l, pos, c) == [l EXCEPT !.list[pos + 1] = c]

bcp_AddBCLCubeByCube(p, l, c) ==
  [cnt |-> l.cnt + 1, list |-> Append(l.list, c), flags |-> Append(l.flags, 0)]

RECURSIVE AddCubesLoop(_, _, _, _)
AddCubesLoop(p, a, b, i) ==
  IF i >= b.cnt THEN a
  ELSE IF Flag(b, i) = 0
       THEN Do(bcp_AddBCLCubeByCube(p, a, bcp_GetBCLCube(p, b, i)),
               LAMBDA a1 : AddCubesLoop(p, a1, b, i + 1))
       ELSE AddCubesLoop(p, a, b, i + 1)

bcp_AddBCLCubesByBCL(p, a, b) == AddCubesLoop(p, a, b, 0)

\* first loop of the purge: first position with a flag set (or cnt)
RECURSIVE PurgeFirst(_, _)
PurgeFirst(l, i) ==
  IF i < l.cnt /\ Flag(l, i) = 0 THEN PurgeFirst(l, i + 1) ELSE i

\* inner while of the purge: next position with flag 0 (or >= cnt)
RECURSIVE PurgeSkip(_, _)
PurgeSkip(l, i) ==
  IF i < l.cnt /\ Flag(l, i) # 0 THEN PurgeSkip(l, i + 1) ELSE i

\* for(;;) of the purge: cubes list[i] -> list[j]
RECURSIVE PurgeLoop(_, _, _, _)
PurgeLoop(p, l, i, j) ==
  LET k == PurgeSkip(l, i)
  IN  IF k >= l.cnt THEN [l |-> l, j |-> j]
      ELSE PurgeLoop(p, SetBCLCube(l, j, bcp_GetBCLCube(p, l, k)), k + 1, j + 1)

\* faulty variant: the flag bytes are left as they are
PurgeBCLKeepFlags(p, l) ==
  Do(PurgeFirst(l, 0), LAMBDA i0 :
  Do(PurgeLoop(p, l, i0 + 1, i0), LAMBDA r :
     [cnt |-> r.j,
      list |-> SubSeq(r.l.list, 1, r.j),
      flags |-> SubSeq(r.l.flags, 1, r.j)]))

bcp_PurgeBCL(p, l) ==
  Do(PurgeFirst(l, 0), LAMBDA i0 :
  Do(PurgeLoop(p, l, i0 + 1, i0), LAMBDA r :
     [cnt |-> r.j,
      list |-> SubSeq(r.l.list, 1, r.j),
      flags |-> [x \in 1 .. r.j |-> 0]]))

RECURSIVE VarCntLoop(_, _, _)
VarCntLoop(p, l, i) ==
  IF i >= l.cnt THEN <<>>
  ELSE <<IF Flag(l, i) = 0
         THEN bcp_GetCubeVariableCount(p, bcp_GetBCLCube(p, l, i))
         ELSE -1>> \o VarCntLoop(p, l, i + 1)

\* vcl[i] is read as vcl[i + 1]
bcp_GetBCLVarCntList(p, l) == VarCntLoop(p, l, 0)

\* ------------------------------------------------------------ containment
\* faulty variant of the inner loop: only a cube with strictly more variables
\* is tested, so an equal cube is never removed
RECURSIVE SccInnerStrict(_, _, _, _, _)
SccInnerStrict(p, l, vcl, i, j) ==
  IF j >= l.cnt THEN l
  ELSE IF Flag(l, j) = 0 /\ i # j /\ vcl[j + 1] > vcl[i + 1]
          /\ bcp_IsSubsetCube(p, bcp_GetBCLCube(p, l, i), bcp_GetBCLCube(p, l, j)) # 0
       THEN SccInnerStrict(p, SetFlag(l, j, 1), vcl, i, j + 1)
       ELSE SccInnerStrict(p, l, vcl, i, j + 1)

\* faulty variant: cube i is tested against itself as well
RECURSIVE SccInnerWithSelf(_, _, _, _, _)
SccInnerWithSelf(p, l, vcl, i, j) ==
  IF j >= l.cnt THEN l
  ELSE IF Flag(l, j) = 0 /\ vcl[j + 1] >= vcl[i + 1]
          /\ bcp_IsSubsetCube(p, bcp_GetBCLCube(p, l, i), bcp_GetBCLCube(p, l, j)) # 0
       THEN SccInnerWithSelf(p, SetFlag(l, j, 1), vcl, i, j + 1)
       ELSE SccInnerWithSelf(p, l, vcl, i, j + 1)

RECURSIVE SccInner(_, _, _, _, _)
SccInner(p, l, vcl, i, j) ==
  IF j >= l.cnt THEN l
  ELSE IF Flag(l, j) = 0 /\ i # j /\ vcl[j + 1] >= vcl[i + 1]
          /\ bcp_IsSubsetCube(p, bcp_GetBCLCube(p, l, i), bcp_GetBCLCube(p, l, j)) # 0
       THEN SccInner(p, SetFlag(l, j, 1), vcl, i, j + 1)
       ELSE SccInner(p, l, vcl, i, j + 1)

RECURSIVE SccOuter(_, _, _, _)
SccOuter(p, l, vcl, i) ==
  IF i >= l.cnt THEN l
  ELSE IF Flag(l, i) = 0
       THEN SccOuter(p, SccInner(p, l, vcl, i, 0), vcl, i + 1)
       ELSE SccOuter(p, l, vcl, i + 1)

bcp_DoBCLSingleCubeContainment(p, l) ==
  Do(bcp_GetBCLVarCntList(p, l), LAMBDA vcl :
  Do(SccOuter(p, l, vcl, 0), LAMBDA marked :
     bcp_PurgeBCL(p, marked)))

\* ------------------------------------------- counting table and split var
\* a 16 bit counter after n saturating increments from 0
SatCount(n) == IF n > 32767 THEN 32767 ELSE n

\* one pass over ALL cnt cubes of the list (the flag bytes are not read):
\* the "one" counter of a variable is incremented for every cube whose code
\* has bit 0 clear, the "zero" counter for every cube whose code has bit 1
\* clear
bcp_CalcBCLBinateSplitVariableTable(p, l) ==
  [var_cnt  |-> p.var_cnt,
   zero_cnt |-> [i \in VarPos(p) |->
                   SatCount(Cardinality({j \in 0 .. (l.cnt - 1) :
                                           Bit1(bcp_GetBCLCube(p, l, j)[i]) = 0}))],
   one_cnt  |-> [i \in VarPos(p) |->
                   SatCount(Cardinality({j \in 0 .. (l.cnt - 1) :
                                           Bit0(bcp_GetBCLCube(p, l, j)[i]) = 0}))]]

\* scan of the variables in index order; the stored maximum is replaced
\* only by a strictly greater sum
RECURSIVE MaxBinateLoop(_, _, _, _)
MaxBinateLoop(p, i, max_sum_cnt, max_sum_var) ==
  IF i >= p.var_cnt THEN max_sum_var
  ELSE LET z == p.zero_cnt[i]
           o == p.one_cnt[i]
           s == IF z + o > 32767 THEN 32767 ELSE z + o
       IN  IF z > 0 /\ o > 0 /\ max_sum_cnt < s
           THEN MaxBinateLoop(p, i + 1, s, i)
           ELSE MaxBinateLoop(p, i + 1, max_sum_cnt, max_sum_var)

bcp_GetBCLMaxBinateSplitVariable(p, l) == MaxBinateLoop(p, 0, 0, -1)

\* the scalar search: the counters are read as unsigned 16 bit values and
\* added as int, the stored maximum starts at -1
RECURSIVE MaxBinateSimpleLoop(_, _, _, _)
MaxBinateSimpleLoop(p, i, max_sum_cnt, max_sum_var) ==
  IF i >= p.var_cnt THEN max_sum_var
  ELSE LET one_cnt  == p.one_cnt[i]
           zero_cnt == p.zero_cnt[i]
       IN  IF one_cnt > 0 /\ zero_cnt > 0 /\ max_sum_cnt < one_cnt + zero_cnt
           THEN MaxBinateSimpleLoop(p, i + 1, one_cnt + zero_cnt, i)
           ELSE MaxBinateSimpleLoop(p, i + 1, max_sum_cnt, max_sum_var)

bcp_GetBCLMaxBinateSplitVariableSimple(p, l) == MaxBinateSimpleLoop(p, 0, -1, -1)

\* byte-wise compare of the 16 bit counters: a variable is reported binate
\* when some byte of its zero counter and the same byte of its one counter
\* are both non-zero
bcp_IsBCLUnate(p) ==
  IF \A i \in VarPos(p) :
       /\ (p.zero_cnt[i] % 256 = 0 \/ p.one_cnt[i] % 256 = 0)
       /\ (p.zero_cnt[i] \div 256 = 0 \/ p.one_cnt[i] \div 256 = 0)
  THEN 1 ELSE 0

\* --------------------------------------------------------------- cofactor
RECURSIVE SubsetMarkLoop(_, _, _, _)
SubsetMarkLoop(p, l, pos, j) ==
  IF j >= l.cnt THEN l
  ELSE IF j # pos /\ Flag(l, j) = 0
          /\ bcp_IsSubsetCube(p, bcp_GetBCLCube(p, l, pos), bcp_GetBCLCube(p, l, j)) # 0
       THEN SubsetMarkLoop(p, SetFlag(l, j, 1), pos, j + 1)
       ELSE SubsetMarkLoop(p, l, pos, j + 1)

bcp_DoBCLSubsetCubeMark(p, l, pos) == SubsetMarkLoop(p, l, pos, 0)

RECURSIVE OneVarCofactorLoop(_, _, _, _, _)
OneVarCofactorLoop(p, l, var_pos, value, i) ==
  IF i >= l.cnt THEN l
  ELSE LET c == bcp_GetBCLCube(p, l, i)
           v == bcp_GetCubeVar(p, c, var_pos)
       IN  IF Flag(l, i) = 0 /\ v # 3 /\ Or2(v, value) = 3
           THEN OneVarCofactorLoop(p,
                  bcp_DoBCLSubsetCubeMark(p,
                    SetBCLCube(l, i, bcp_SetCubeVar(p, c, var_pos, 3)), i),
                  var_pos, value, i + 1)
           ELSE OneVarCofactorLoop(p, l, var_pos, value, i + 1)

\* faulty variant: the cofactor for value 1 whatever value is asked for
OneVariableCofactorValueOneOnly(p, l, var_pos, value) ==
  Do(OneVarCofactorLoop(p, l, var_pos, 1, 0), LAMBDA marked :
     bcp_PurgeBCL(p, marked))

bcp_DoBCLOneVariableCofactor(p, l, var_pos, value) ==
  Do(OneVarCofactorLoop(p, l, var_pos, value, 0), LAMBDA marked :
     bcp_PurgeBCL(p, marked))

bcp_NewBCLCofacterByVariable(p, l, var_pos, value) ==
  bcp_DoBCLOneVariableCofactor(p, bcp_NewBCLByBCL(p, l), var_pos, value)

\* -------------------------------------------------------------- tautology
RECURSIVE HasTautologyCube(_, _, _)
HasTautologyCube(p, l, i) ==
  IF i >= l.cnt THEN 0
  ELSE IF bcp_IsTautologyCube(p, bcp_GetBCLCube(p, l, i)) # 0 THEN 1
       ELSE HasTautologyCube(p, l, i + 1)

\* -1 stands for the failed assert(depth < 2000)
RECURSIVE bcp_IsBCLTautologySub(_, _, _)
bcp_IsBCLTautologySub(p, l, depth) ==
  IF depth >= TautologyDepth THEN -1
  ELSE IF l.cnt = 0 THEN 0
  ELSE LET pt == bcp_CalcBCLBinateSplitVariableTable(p, l)
           var_pos == bcp_GetBCLMaxBinateSplitVariable(pt, l)
       IN  IF var_pos < 0 THEN HasTautologyCube(p, l, 0)
           ELSE LET f1 == bcp_NewBCLCofacterByVariable(p, l, var_pos, 1)
                    f2 == bcp_NewBCLCofacterByVariable(p, l, var_pos, 2)
                    r1 == bcp_IsBCLTautologySub(p, f1, depth + 1)
                IN  IF r1 = 0 THEN 0
                    ELSE IF r1 < 0 THEN -1
                    ELSE LET r2 == bcp_IsBCLTautologySub(p, f2, depth + 1)
                         IN  IF r2 = 0 THEN 0 ELSE IF r2 < 0 THEN -1 ELSE 1

bcp_IsBCLTautology(p, l) == bcp_IsBCLTautologySub(p, l, 0)


\* cofactor of the list by a cube: the cube at position "exclude" is left
\* out, every other live cube is OR-ed with the complement of c, then SCC
RECURSIVE CofactorByCubeLoop(_, _, _, _)
CofactorByCubeLoop(p, l, c, i) ==
  IF i >= l.cnt THEN l
  ELSE IF Flag(l, i) = 0
       THEN CofactorByCubeLoop(p,
              SetBCLCube(l, i,
                [v \in VarPos(p) |-> Or2(bcp_GetBCLCube(p, l, i)[v], Not2(c[v]))]),
              c, i + 1)
       ELSE CofactorByCubeLoop(p, l, c, i + 1)

bcp_DoBCLCofactorByCube(p, l, c, exclude) ==
  Do(IF exclude >= 0 THEN SetFlag(l, exclude, 1) ELSE l, LAMBDA l1 :
  Do(CofactorByCubeLoop(p, l1, c, 0), LAMBDA l2 :
     bcp_DoBCLSingleCubeContainment(p, l2)))

bcp_NewBCLCofactorByCube(p, l, c, exclude) ==
  bcp_DoBCLCofactorByCube(p, bcp_NewBCLByBCL(p, l), c, exclude)

\* --------------------------------------------------- multi cube containment
bcp_IsBCLCubeCovered(p, l, c) ==
  Do(bcp_NewBCLCofactorByCube(p, l, c, -1), LAMBDA n :
     bcp_IsBCLTautology(p, n))

\* faulty variant: the cube at pos is not left out of the cofactor
CubeRedundantWithoutExclude(p, l, pos) ==
  Do(bcp_NewBCLCofactorByCube(p, l, bcp_GetBCLCube(p, l, pos), -1), LAMBDA n :
     bcp_IsBCLTautology(p, n))

bcp_IsBCLCubeRedundant(p, l, pos) ==
  Do(bcp_NewBCLCofactorByCube(p, l, bcp_GetBCLCube(p, l, pos), pos), LAMBDA n :
     bcp_IsBCLTautology(p, n))

RECURSIVE MccMinMax(_, _, _, _, _)
MccMinMax(l, vcl, i, min, max) ==
  IF i >= l.cnt THEN [min |-> min, max |-> max]
  ELSE IF Flag(l, i) = 0
       THEN MccMinMax(l, vcl, i + 1,
              IF min > vcl[i + 1] THEN vcl[i + 1] ELSE min,
              IF max < vcl[i + 1] THEN vcl[i + 1] ELSE max)
       ELSE MccMinMax(l, vcl, i + 1, min, max)

RECURSIVE MccInner(_, _, _, _, _)
MccInner(p, l, vcl, vc, i) ==
  IF i >= l.cnt THEN l
  ELSE IF Flag(l, i) = 0 /\ vcl[i + 1] = vc /\ bcp_IsBCLCubeRedundant(p, l, i) # 0
       THEN MccInner(p, SetFlag(l, i, 1), vcl, vc, i + 1)
       ELSE MccInner(p, l, vcl, vc, i + 1)

RECURSIVE MccOuter(_, _, _, _, _)
MccOuter(p, l, vcl, vc, min) ==
  IF vc < min THEN l
  ELSE MccOuter(p, MccInner(p, l, vcl, vc, 0), vcl, vc - 1, min)

\* faulty variant: single cube containment in the place of the redundancy test
MultiCubeContainmentBySccOnly(p, l) == bcp_DoBCLSingleCubeContainment(p, l)

bcp_DoBCLMultiCubeContainment(p, l) ==
  Do(bcp_GetBCLVarCntList(p, l), LAMBDA vcl :
  Do(MccMinMax(l, vcl, 0, p.var_cnt, 0), LAMBDA mm :
  Do(MccOuter(p, l, vcl, mm.max, mm.min), LAMBDA marked :
     bcp_PurgeBCL(p, marked))))

\* ------------------------------------------------------ sharp and subtract
RECURSIVE bcp_DoBCLSharpLoop(_, _, _, _, _)
bcp_DoBCLSharpLoop(p, l, a, b, i) ==
  IF i >= p.var_cnt THEN l
  ELSE LET bb == bcp_GetCubeVar(p, b, i)
           orig_aa == bcp_GetCubeVar(p, a, i)
           new_aa == And2(orig_aa, Not2(bb))
       IN  IF bb # 3 /\ new_aa # 0
           THEN Do(bcp_AddBCLCubeByCube(p, l, bcp_SetCubeVar(p, a, i, new_aa)),
                   LAMBDA l1 : bcp_DoBCLSharpLoop(p, l1, a, b, i + 1))
           ELSE bcp_DoBCLSharpLoop(p, l, a, b, i + 1)

\* faulty variant: only the cube for variable 0 is appended
SharpOperationFirstVarOnly(p, l, a, b) ==
  IF bcp_GetCubeVar(p, b, 0) # 3
     /\ And2(bcp_GetCubeVar(p, a, 0), Not2(bcp_GetCubeVar(p, b, 0))) # 0
  THEN bcp_AddBCLCubeByCube(p, l,
         bcp_SetCubeVar(p, a, 0, And2(bcp_GetCubeVar(p, a, 0), Not2(bcp_GetCubeVar(p, b, 0)))))
  ELSE l

\* faulty variant: the loop over the variables starts at variable 1
SharpOperationFromSecondVar(p, l, a, b) == bcp_DoBCLSharpLoop(p, l, a, b, 1)

bcp_DoBCLSharpOperation(p, l, a, b) == bcp_DoBCLSharpLoop(p, l, a, b, 0)

RECURSIVE SubtractInner(_, _, _, _, _)
SubtractInner(p, result, a, bi, j) ==
  IF j >= a.cnt THEN result
  ELSE Do(bcp_DoBCLSharpOperation(p, result, bcp_GetBCLCube(p, a, j), bi),
          LAMBDA r1 : SubtractInner(p, r1, a, bi, j + 1))

RECURSIVE SubtractOuter(_, _, _, _, _)
SubtractOuter(p, a, b, is_mcc, i) ==
  IF i >= b.cnt THEN a
  ELSE Do(SubtractInner(p, bcp_NewBCL(p), a, bcp_GetBCLCube(p, b, i), 0), LAMBDA result :
       Do(bcp_DoBCLSingleCubeContainment(p, bcp_CopyBCL(p, a, result)), LAMBDA a1 :
       Do(IF is_mcc # 0 THEN bcp_DoBCLMultiCubeContainment(p, a1) ELSE a1, LAMBDA a2 :
          SubtractOuter(p, a2, b, is_mcc, i + 1))))

\* faulty variant: the first cube of b is not subtracted
SubtractAllButFirst(p, a, b, is_mcc) == SubtractOuter(p, a, b, is_mcc, 1)

\* a = a - b, for distinct list objects a and b
bcp_SubtractBCL(p, a, b, is_mcc) == SubtractOuter(p, a, b, is_mcc, 0)

\* bcp_SubtractBCL(p, a, a, is_mcc): b is the list object a itself, so
\* b->cnt and cube i of b are read from the list the earlier rounds left in a
RECURSIVE SubtractSameOuter(_, _, _, _)
SubtractSameOuter(p, a, is_mcc, i) ==
  IF i >= a.cnt THEN a
  ELSE Do(SubtractInner(p, bcp_NewBCL(p), a, bcp_GetBCLCube(p, a, i), 0), LAMBDA result :
       Do(bcp_DoBCLSingleCubeContainment(p, bcp_CopyBCL(p, a, result)), LAMBDA a1 :
       Do(IF is_mcc # 0 THEN bcp_DoBCLMultiCubeContainment(p, a1) ELSE a1, LAMBDA a2 :
          SubtractSameOuter(p, a2, is_mcc, i + 1))))

bcp_SubtractBCLSameList(p, a, is_mcc) == SubtractSameOuter(p, a, is_mcc, 0)

\* ------------------------------------------------------ expand with off-set
RECURSIVE OffSetHit(_, _, _, _)
OffSetHit(p, c, off, j) ==
  IF j >= off.cnt THEN FALSE
  ELSE IF Flag(off, j) = 0 /\ bcp_IsIntersectionCube(p, c, bcp_GetBCLCube(p, off, j)) # 0
       THEN TRUE
       ELSE OffSetHit(p, c, off, j + 1)

\* faulty variant: only variable 0 is tried
ExpandCubeFirstVarOnly(p, c, off, v) ==
  IF bcp_GetCubeVar(p, c, 0) # 3 /\ ~OffSetHit(p, bcp_SetCubeVar(p, c, 0, 3), off, 0)
  THEN bcp_SetCubeVar(p, c, 0, 3)
  ELSE c

RECURSIVE ExpandCube(_, _, _, _)
ExpandCube(p, c, off, v) ==
  IF v >= p.var_cnt THEN c
  ELSE IF bcp_GetCubeVar(p, c, v) # 3
          /\ ~OffSetHit(p, bcp_SetCubeVar(p, c, v, 3), off, 0)
       THEN ExpandCube(p, bcp_SetCubeVar(p, c, v, 3), off, v + 1)
       ELSE ExpandCube(p, c, off, v + 1)

RECURSIVE ExpandLoop(_, _, _, _)
ExpandLoop(p, l, off, i) ==
  IF i >= l.cnt THEN l
  ELSE IF Flag(l, i) = 0
       THEN ExpandLoop(p, SetBCLCube(l, i, ExpandCube(p, bcp_GetBCLCube(p, l, i), off, 0)),
                       off, i + 1)
       ELSE ExpandLoop(p, l, off, i + 1)

\* faulty variant: single cube containment is run after the expansion
ExpandWithOffSetThenScc(p, l, off) ==
  Do(ExpandLoop(p, l, off, 0), LAMBDA l1 : bcp_DoBCLSingleCubeContainment(p, l1))

bcp_DoBCLExpandWithOffSet(p, l, off) == ExpandLoop(p, l, off, 0)

\* ---------------------------------------------------------------- complement
bcp_NewBCLComplementWithSubtract(p, l) ==
  LET pt == bcp_CalcBCLBinateSplitVariableTable(p, l)
      is_mcc == IF bcp_IsBCLUnate(pt) # 0 THEN 0 ELSE 1
      result == bcp_AddBCLCubeByCube(p, bcp_NewBCL(p), bcp_GetGlobalCube3(p))
  IN  Do(bcp_SubtractBCL(p, result, l, is_mcc), LAMBDA r1 :
      Do(bcp_DoBCLExpandWithOffSet(p, r1, l), LAMBDA r2 :
         bcp_DoBCLMultiCubeContainment(p, r2)))

bcp_NewBCLComplement(p, l) == bcp_NewBCLComplementWithSubtract(p, l)


\* ------------------------------------------------------------ simple expand
RECURSIVE FirstDeltaVar(_, _, _, _)
FirstDeltaVar(p, c, d, v) ==
  IF v >= p.var_cnt THEN v
  ELSE IF And2(bcp_GetCubeVar(p, c, v), bcp_GetCubeVar(p, d, v)) = 0 THEN v
       ELSE FirstDeltaVar(p, c, d, v + 1)

\* for k: mark every live cube other than i and j that is a subset of cube "pos"
RECURSIVE SimpleExpandMark(_, _, _, _, _, _)
SimpleExpandMark(p, l, i, j, pos, k) ==
  IF k >= l.cnt THEN l
  ELSE IF k # j /\ k # i /\ Flag(l, k) = 0
          /\ bcp_IsSubsetCube(p, bcp_GetBCLCube(p, l, pos), bcp_GetBCLCube(p, l, k)) # 0
       THEN SimpleExpandMark(p, SetFlag(l, k, 1), i, j, pos, k + 1)
       ELSE SimpleExpandMark(p, l, i, j, pos, k + 1)

\* faulty variant: cube i is widened when cube j is inside the added half
SimpleExpandPairSubsetSwapped(p, l, i, j) ==
  LET c == bcp_GetBCLCube(p, l, i)
      d == bcp_GetBCLCube(p, l, j)
      v == FirstDeltaVar(p, c, d, 0)
  IN  IF bcp_GetCubeDelta(p, c, d) # 1 \/ v >= p.var_cnt THEN l
      ELSE IF bcp_IsSubsetCube(p, bcp_SetCubeVar(p, c, v, 3 - bcp_GetCubeVar(p, c, v)), d) # 0
           THEN SimpleExpandMark(p, SetBCLCube(l, i, bcp_SetCubeVar(p, c, v, 3)), i, j, i, 0)
           ELSE l

SimpleExpandPair(p, l, i, j) ==
  LET c == bcp_GetBCLCube(p, l, i)
      d == bcp_GetBCLCube(p, l, j)
      v == FirstDeltaVar(p, c, d, 0)
  IN  IF bcp_GetCubeDelta(p, c, d) # 1 \/ v >= p.var_cnt THEN l
      ELSE LET cval == bcp_GetCubeVar(p, c, v)
               dval == bcp_GetCubeVar(p, d, v)
           IN  IF bcp_IsSubsetCube(p, d, bcp_SetCubeVar(p, c, v, 3 - cval)) # 0
               THEN SimpleExpandMark(p, SetBCLCube(l, i, bcp_SetCubeVar(p, c, v, 3)),
                                     i, j, i, 0)
               ELSE IF bcp_IsSubsetCube(p, c, bcp_SetCubeVar(p, d, v, 3 - dval)) # 0
                    THEN SimpleExpandMark(p, SetBCLCube(l, j, bcp_SetCubeVar(p, d, v, 3)),
                                          i, j, j, 0)
                    ELSE l

RECURSIVE SimpleExpandInner(_, _, _, _)
SimpleExpandInner(p, l, i, j) ==
  IF j >= l.cnt THEN l
  ELSE IF Flag(l, j) = 0
       THEN SimpleExpandInner(p, SimpleExpandPair(p, l, i, j), i, j + 1)
       ELSE SimpleExpandInner(p, l, i, j + 1)

RECURSIVE SimpleExpandOuter(_, _, _)
SimpleExpandOuter(p, l, i) ==
  IF i >= l.cnt THEN l
  ELSE IF Flag(l, i) = 0
       THEN SimpleExpandOuter(p, SimpleExpandInner(p, l, i, i + 1), i + 1)
       ELSE SimpleExpandOuter(p, l, i + 1)

bcp_DoBCLSimpleExpand(p, l) ==
  Do(SimpleExpandOuter(p, l, 0), LAMBDA marked : bcp_PurgeBCL(p, marked))

\* ------------------------------------------------ complement with cofactor
RECURSIVE SetVarInLiveCubes(_, _, _, _, _)
SetVarInLiveCubes(p, l, var_pos, value, i) ==
  IF i >= l.cnt THEN l
  ELSE IF Flag(l, i) = 0
       THEN SetVarInLiveCubes(p,
              SetBCLCube(l, i, bcp_SetCubeVar(p, bcp_GetBCLCube(p, l, i), var_pos, value)),
              var_pos, value, i + 1)
       ELSE SetVarInLiveCubes(p, l, var_pos, value, i + 1)

\* for j over cf1: the cube c (cube i of cf2 with the variable set to one)
\* is compared with every cube of cf1 at a position other than i
RECURSIVE MergeInner(_, _, _, _, _, _, _)
MergeInner(p, cf1, cf2, var_pos, c, i, j) ==
  IF j >= cf1.cnt THEN [cf1 |-> cf1, cf2 |-> cf2]
  ELSE IF i # j /\ bcp_CompareCube(p, c, bcp_GetBCLCube(p, cf1, j)) = 0
       THEN MergeInner(p,
              SetBCLCube(cf1, j, bcp_SetCubeVar(p, bcp_GetBCLCube(p, cf1, j), var_pos, 3)),
              SetFlag(cf2, i, 1), var_pos, c, i, j + 1)
       ELSE MergeInner(p, cf1, cf2, var_pos, c, i, j + 1)

\* faulty variant: the complement of the second cofactor is dropped
MergeOuterDropSecond(p, cf1, cf2, var_pos, i) == [cf1 |-> cf1, cf2 |-> bcp_NewBCL(p)]

RECURSIVE MergeOuter(_, _, _, _, _)
MergeOuter(p, cf1, cf2, var_pos, i) ==
  IF i >= cf2.cnt THEN [cf1 |-> cf1, cf2 |-> cf2]
  ELSE IF Flag(cf2, i) = 0
       THEN LET c == bcp_SetCubeVar(p, bcp_GetBCLCube(p, cf2, i), var_pos, 2)
                m == MergeInner(p, cf1, cf2, var_pos, c, i, 0)
            IN  MergeOuter(p, m.cf1,
                  SetBCLCube(m.cf2, i, bcp_SetCubeVar(p, c, var_pos, 1)), var_pos, i + 1)
       ELSE MergeOuter(p, cf1, cf2, var_pos, i + 1)

RECURSIVE bcp_NewBCLComplementWithCofactorSub(_, _)
bcp_NewBCLComplementWithCofactorSub(p, l) ==
  LET pt == bcp_CalcBCLBinateSplitVariableTable(p, l)
      var_pos == bcp_GetBCLMaxBinateSplitVariable(pt, l)
  IN  IF var_pos < 0
      THEN bcp_SubtractBCL(p,
             bcp_AddBCLCubeByCube(p, bcp_NewBCL(p), bcp_GetGlobalCube3(p)), l, 0)
      ELSE Do(bcp_NewBCLCofacterByVariable(p, l, var_pos, 1), LAMBDA g1 :
           Do(bcp_DoBCLSimpleExpand(p, g1), LAMBDA f1 :
           Do(bcp_NewBCLCofacterByVariable(p, l, var_pos, 2), LAMBDA g2 :
           Do(bcp_DoBCLSimpleExpand(p, g2), LAMBDA f2 :
           Do(bcp_NewBCLComplementWithCofactorSub(p, f1), LAMBDA n1 :
           Do(bcp_NewBCLComplementWithCofactorSub(p, f2), LAMBDA n2 :
           Do(SetVarInLiveCubes(p, n1, var_pos, 2, 0), LAMBDA s1 :
           Do(bcp_DoBCLSingleCubeContainment(p, s1), LAMBDA cf1 :
           Do(SetVarInLiveCubes(p, n2, var_pos, 1, 0), LAMBDA s2 :
           Do(bcp_DoBCLSingleCubeContainment(p, s2), LAMBDA cf2 :
           Do(MergeOuter(p, cf1, cf2, var_pos, 0), LAMBDA m :
           Do(bcp_AddBCLCubesByBCL(p, m.cf1, m.cf2), LAMBDA u :
           Do(bcp_DoBCLExpandWithOffSet(p, u, l), LAMBDA e :
              bcp_DoBCLSingleCubeContainment(p, e))))))))))))))

bcp_NewBCLComplementWithCofactor(p, l) ==
  Do(bcp_NewBCLComplementWithCofactorSub(p, l), LAMBDA n :
     bcp_DoBCLMultiCubeContainment(p, n))

\* ----------------------------------------------------------------- minimize
\* faulty variant: the cubes are expanded against an empty off-set
MinimizeWithEmptyOffSet(p, l) ==
  Do(bcp_DoBCLSingleCubeContainment(p, l), LAMBDA l1 :
  Do(bcp_DoBCLExpandWithOffSet(p, l1, bcp_NewBCL(p)), LAMBDA l2 :
  Do(bcp_DoBCLSingleCubeContainment(p, l2), LAMBDA l3 :
     bcp_DoBCLMultiCubeContainment(p, l3))))

\* faulty variant: no cube is expanded
MinimizeWithoutExpand(p, l) ==
  Do(bcp_DoBCLSingleCubeContainment(p, l), LAMBDA l1 :
  Do(bcp_NewBCLComplementWithSubtract(p, l1), LAMBDA complement :
  Do(bcp_DoBCLSingleCubeContainment(p, l1), LAMBDA l3 :
     bcp_DoBCLMultiCubeContainment(p, l3))))

\* the list left in l
bcp_MinimizeBCL(p, l) ==
  Do(bcp_DoBCLSingleCubeContainment(p, l), LAMBDA l1 :
  Do(bcp_NewBCLComplementWithSubtract(p, l1), LAMBDA complement :
  Do(bcp_DoBCLExpandWithOffSet(p, l1, complement), LAMBDA l2 :
  Do(bcp_DoBCLSingleCubeContainment(p, l2), LAMBDA l3 :
     bcp_DoBCLMultiCubeContainment(p, l3)))))

\* ------------------------------------------------------------- intersection
RECURSIVE IntersectionInner(_, _, _, _, _)
IntersectionInner(p, result, a, bi, j) ==
  IF j >= a.cnt THEN result
  ELSE LET t == bcp_IntersectionCube(p, bcp_GetBCLCube(p, a, j), bi)
       IN  IF t.ok # 0
           THEN Do(bcp_AddBCLCubeByCube(p, result, t.r),
                   LAMBDA r1 : IntersectionInner(p, r1, a, bi, j + 1))
           ELSE IntersectionInner(p, result, a, bi, j + 1)

\* for i over b: the result list is cleared at the top of every round
RECURSIVE IntersectionOuter(_, _, _, _, _)
IntersectionOuter(p, result, a, b, i) ==
  IF i >= b.cnt THEN result
  ELSE Do(IntersectionInner(p, bcp_ClearBCL(p, result), a, bcp_GetBCLCube(p, b, i), 0),
          LAMBDA r1 : IntersectionOuter(p, r1, a, b, i + 1))

\* the list left in "result" (distinct from a and b)
bcp_IntersectionBCLs(p, result, a, b) ==
  Do(IntersectionOuter(p, bcp_ClearBCL(p, result), a, b, 0), LAMBDA r1 :
     bcp_DoBCLSingleCubeContainment(p, r1))

\* the list left in a
bcp_IntersectionBCL(p, a, b) ==
  bcp_CopyBCL(p, a, bcp_IntersectionBCLs(p, bcp_NewBCL(p), a, b))

\* ------------------------------------------------------------------- subset
RECURSIVE SubsetWithCofactorLoop(_, _, _, _)
SubsetWithCofactorLoop(p, a, b, i) ==
  IF i >= b.cnt THEN 1
  ELSE IF bcp_IsBCLCubeCovered(p, a, bcp_GetBCLCube(p, b, i)) = 0 THEN 0
       ELSE SubsetWithCofactorLoop(p, a, b, i + 1)

\* faulty variant: the two lists change places
SubsetWithCofactorSwapped(p, a, b) == SubsetWithCofactorLoop(p, b, a, 0)

\* is "b" a subset of "a"
bcp_IsBCLSubsetWithCofactor(p, a, b) == SubsetWithCofactorLoop(p, a, b, 0)

bcp_IsBCLSubset(p, a, b) == bcp_IsBCLSubsetWithCofactor(p, a, b)

bcp_IsBCLSubsetWithSubstract(p, a, b) ==
  LET tmp == bcp_SubtractBCL(p, bcp_NewBCLByBCL(p, b), a, 1)
  IN  IF tmp.cnt = 0 THEN 1 ELSE 0


\* -------------------------------------------------------------- semantics
\* the minterms of a problem and the set a list denotes (live cubes only)
Minterms(p) == [VarPos(p) -> {1, 2}]
CubeCovers(p, c, m) == \A i \in VarPos(p) : And2(c[i], m[i]) = m[i]
Denotes(p, l) ==
  {m \in Minterms(p) :
     \E k \in 0 .. (l.cnt - 1) : Flag(l, k) = 0 /\ CubeCovers(p, bcp_GetBCLCube(p, l, k), m)}
CubeSet(p, c) == {m \in Minterms(p) : CubeCovers(p, c, m)}

\* ================================================================ strings
\* a C string is the sequence of its characters; reading at or behind its
\* end gives the terminating NUL
CharAt(s, pos) == IF pos > Len(s) THEN "NUL" ELSE s[pos]

\* while( *s == ' ' || *s == '\t' ) s++
RECURSIVE SkipWhiteSpace(_, _)
SkipWhiteSpace(s, pos) ==
  IF CharAt(s, pos) \in {" ", "\t"} THEN SkipWhiteSpace(s, pos + 1) ELSE pos

RECURSIVE VarCntFromStringLoop(_, _, _)
VarCntFromStringLoop(s, pos, cnt) ==
  LET q == SkipWhiteSpace(s, pos)
  IN  IF CharAt(s, q) \in {"NUL", "\r", "\n"} THEN cnt
      ELSE VarCntFromStringLoop(s, q + 1, cnt + 1)

bcp_GetVarCntFromString(s) == VarCntFromStringLoop(s, 1, 0)

\* "x01-"[v]
CodeChar(v) == <<"x", "0", "1", "-">>[v + 1]

\* faulty variant: the last variable is written first
GetStringFromCubeReversed(q, c) ==
  [i \in 1 .. q.var_cnt |-> CodeChar(bcp_GetCubeVar(q, c, q.var_cnt - i))]

\* the characters written to cube_to_str
bcp_GetStringFromCube(q, c) ==
  [i \in 1 .. q.var_cnt |-> CodeChar(bcp_GetCubeVar(q, c, i - 1))]

\* the cube and the read position after the loop over the variables
RECURSIVE SetCubeByStringLoop(_, _, _, _, _)
SetCubeByStringLoop(q, c, s, pos, i) ==
  IF i >= q.var_cnt THEN [c |-> c, pos |-> pos]
  ELSE LET k  == SkipWhiteSpace(s, pos)
           ch == CharAt(s, k)
           v  == IF ch = "0" THEN 1
                 ELSE IF ch = "1" THEN 2
                 ELSE IF ch = "-" THEN 3
                 ELSE IF ch = "x" THEN 0
                 ELSE 3
           k2 == IF ch \notin {"NUL", "\r", "\n"} THEN k + 1 ELSE k
       IN  SetCubeByStringLoop(q, bcp_SetCubeVar(q, c, i, v), s, k2, i + 1)

bcp_SetCubeByStringPointer(q, c, s, pos) == SetCubeByStringLoop(q, c, s, pos, 0)

bcp_SetCubeByString(q, c, s) == bcp_SetCubeByStringPointer(q, c, s, 1).c

\* inner for(;;) of bcp_AddBCLCubesByString: the next position with a
\* character above ' ', or the position of the NUL
RECURSIVE SkipToCube(_, _)
SkipToCube(s, pos) ==
  IF CharAt(s, pos) \in {" ", "\t", "\r", "\n"} THEN SkipToCube(s, pos + 1) ELSE pos

RECURSIVE AddCubesByStringLoop(_, _, _, _)
AddCubesByStringLoop(q, l, s, pos) ==
  LET k == SkipToCube(s, pos)
  IN  IF CharAt(s, k) = "NUL" THEN l
      ELSE LET n == bcp_SetCubeByStringPointer(q, bcp_GetGlobalCube3(q), s, k)
           IN  AddCubesByStringLoop(q, bcp_AddBCLCubeByCube(q, l, n.c), s, n.pos)

\* faulty variant: only the first cube of the string is added
AddCubesByStringFirstOnly(q, l, s) ==
  LET k == SkipToCube(s, 1)
  IN  IF CharAt(s, k) = "NUL" THEN l
      ELSE bcp_AddBCLCubeByCube(q, l,
             bcp_SetCubeByStringPointer(q, bcp_GetGlobalCube3(q), s, k).c)

\* the list l after the call
bcp_AddBCLCubesByString(q, l, s) == AddCubesByStringLoop(q, l, s, 1)

\* ============================================================ state machine
\* p      the problem handle
\* a, b   the caller's cube lists
\* r      the list an operation returns or fills (complement, intersection)
\* ret    the int an operation returns
\* pc     "idle" before the operation, then the name of the operation done
\* a0     the value of a before the operation
VARIABLES p, a, b, r, ret, pc, a0

\* the scratch arena of the problem handle (fields of struct bcp_struct)
\* stack_cube_list   cnt, max and the address in list (0 is NULL) of the arena
\* stack_frame_pos   the saved lengths of the active frames, [0 .. stack_depth-1]
\* stack_depth       number of active frames
\* temps             the temp cubes handed out in the active frames: the
\*                   address of the arena storage the pointer was computed
\*                   from, the position, and the depth of the frame
VARIABLES stack_cube_list, stack_frame_pos, stack_depth, temps

\* the field max of the list a (cubes its storage has room for); kept for
\* the list the random tautology generator builds, 0 otherwise
VARIABLES a_max

\* the characters of a C string, without the terminating NUL: the string a
\* list is read from, or the buffer cube_to_str of the problem handle
VARIABLES str

\* bc_ExecuteVector, for slot 0 and one other slot:
\* slot_list   the pointers in the two slots: the address of a list, 0 is NULL
\* heap        the list objects allocated, by address
\* copied      what the last copy0 into the other slot copied, while no
\*             command has stored another list there: list0 is the list
\*             slot 0 held before the copy0, at_copy is TRUE directly after
VARIABLES slot_list, heap, copied

slotvars == <<slot_list, heap, copied>>

\* the copy of bcltautology.c that is built, for the recursion of
\* bcp_IsBCLTautologySub followed call by call (depth is kept in ret)
VARIABLES build

\* bc_ExecuteVector, the values its output is made from:
\* is_empty, is_0_superset, is_0_subset   the locals of that name
\* output      the keys of the entry the last command added to the output
\*             map, or "none" if it added no entry
VARIABLES is_empty, is_0_superset, is_0_subset, output

jsonvars == <<is_empty, is_0_superset, is_0_subset, output>>

\* the value of output when the last command added no entry
NoEntry == [keys |-> {}, index |-> -1, empty |-> -1, superset |-> -1, subset |-> -1]

\* the arguments of the last call that took a variable position and a value,
\* the counter table the last count left behind, and the index the scalar
\* search returned
VARIABLES arg_var, arg_value, tab, ret_simple

callvars == <<arg_var, arg_value, tab, ret_simple>>
restvars == <<build, jsonvars, callvars>>

CallNew ==
  /\ arg_var = -1
  /\ arg_value = 0
  /\ tab = <<>>
  /\ ret_simple = -1

\* neither is followed
RestNew ==
  /\ build = "none"
  /\ is_empty = -1
  /\ is_0_superset = -1
  /\ is_0_subset = -1
  /\ output = NoEntry
  /\ CallNew

listvars == <<p, a, b, r, ret, pc, a0>>
stackvars == <<stack_cube_list, stack_frame_pos, stack_depth, temps>>
aux == <<stackvars, a_max, str, slotvars, restvars>>
vars == <<listvars, aux>>

\* no command script is run
SlotsNew ==
  /\ slot_list = <<>>
  /\ heap = <<>>
  /\ copied = [valid |-> FALSE]

\* the arena after bcp_New
StackNew ==
  /\ stack_cube_list = [cnt |-> 0, max |-> 0, list |-> 0]
  /\ stack_frame_pos = <<>>
  /\ stack_depth = 0
  /\ temps = <<>>

\* legal cubes: no field with code 00
LegalCubes(q) == [VarPos(q) -> {1, 2, 3}]

\* a list as bcp_AddBCLCubeByCube builds it from the cubes cs: all flags 0
ListOf(cs) == [cnt |-> Len(cs), list |-> cs, flags |-> [x \in 1 .. Len(cs) |-> 0]]

Min(x, y) == IF x < y THEN x ELSE y

\* one list, for tautology and the containment operations
Init ==
  /\ \E v \in 1 .. MaxVars : \E k \in 0 .. Min(MaxLen, MaxCells \div v) :
       /\ p = bcp_New(v)
       /\ \E cs \in [1 .. k -> LegalCubes(bcp_New(v))] : a = ListOf(cs)
  /\ b = bcp_NewBCL(p)
  /\ r = bcp_NewBCL(p)
  /\ ret = 0
  /\ pc = "idle"
  /\ a0 = a
  /\ StackNew
  /\ RestNew
  /\ SlotsNew
  /\ a_max = 0
  /\ str = <<>>

\* one list, for the complement operations
InitC ==
  /\ \E v \in 1 .. MaxVars : \E k \in 0 .. Min(MaxLen, MaxCellsC \div v) :
       /\ p = bcp_New(v)
       /\ \E cs \in [1 .. k -> LegalCubes(bcp_New(v))] : a = ListOf(cs)
  /\ b = bcp_NewBCL(p)
  /\ r = bcp_NewBCL(p)
  /\ ret = 0
  /\ pc = "idle"
  /\ a0 = a
  /\ StackNew
  /\ RestNew
  /\ SlotsNew
  /\ a_max = 0
  /\ str = <<>>

\* a fresh problem handle, no list
InitStack ==
  /\ p = bcp_New(MaxVars)
  /\ a = bcp_NewBCL(p)
  /\ b = bcp_NewBCL(p)
  /\ r = bcp_NewBCL(p)
  /\ ret = 0
  /\ pc = "new"
  /\ a0 = a
  /\ StackNew
  /\ RestNew
  /\ SlotsNew
  /\ a_max = 0
  /\ str = <<>>

\* bcp_NewBCLWithRandomTautology before its first loop: the list holds the
\* all-dontcare cube, ret is the parameter size
InitGen ==
  /\ \E v \in 1 .. MaxVars : p = bcp_New(v)
  /\ a = bcp_AddBCLCubeByCube(p, bcp_NewBCL(p), bcp_GetGlobalCube3(p))
  /\ a_max = BCL_EXTEND
  /\ b = bcp_NewBCL(p)
  /\ r = bcp_NewBCL(p)
  /\ ret \in 1 .. MaxGenSize
  /\ pc = "gen_loop"
  /\ a0 = a
  /\ StackNew
  /\ RestNew
  /\ SlotsNew
  /\ str = <<>>

\* 2^j
RECURSIVE Pow2(_)
Pow2(j) == IF j = 0 THEN 1 ELSE 2 * Pow2(j - 1)

\* the list the generator has built when it has split every cube at the
\* variables 0, 1, .. in turn until the list holds BCL_EXTEND cubes: the
\* storage of the list is full
GrownList(q) ==
  ListOf([k \in 1 .. BCL_EXTEND |->
            [j \in VarPos(q) |->
               IF Pow2(j) >= BCL_EXTEND THEN 3 ELSE 1 + (((k - 1) \div Pow2(j)) % 2)]])

\* the generator in its first loop, asked for one more cube than the first
\* allocation holds, or at its start
InitGenGrown ==
  \/ InitGen
  \/ /\ p = bcp_New(GrownVars)
     /\ a = GrownList(p)
     /\ a_max = BCL_EXTEND
     /\ b = bcp_NewBCL(p)
     /\ r = bcp_NewBCL(p)
     /\ ret = BCL_EXTEND + 1
     /\ pc = "gen_loop"
     /\ a0 = a
     /\ StackNew
     /\ RestNew
  /\ RestNew
     /\ SlotsNew
  /\ SlotsNew
     /\ str = <<>>

\* the string of main1
Main1String ==
  <<"-", "1", "1", "\n",
    "1", "1", "0", "\n",
    "1", "1", "-", "\n",
    "0", "-", "-", "\n">>

StringChars == {"0", "1", "-", " ", "\n"}

\* a string of cubes that names a variable at least, or a cube of any codes
\* to be shown as a string
InitStr ==
  /\ \/ /\ \/ str = Main1String
           \/ \E n \in 1 .. MaxStrLen : str \in [1 .. n -> StringChars]
        /\ bcp_GetVarCntFromString(str) >= 1
        /\ p = bcp_New(bcp_GetVarCntFromString(str))
        /\ a = bcp_NewBCL(p)
        /\ pc = "string"
     \/ /\ str = <<>>
        /\ \E v \in 1 .. MaxVars :
             /\ p = bcp_New(v)
             /\ \E c \in [VarPos(bcp_New(v)) -> 0 .. 3] : a = ListOf(<<c>>)
        /\ pc = "cube"
  /\ b = bcp_NewBCL(p)
  /\ r = bcp_NewBCL(p)
  /\ ret = 0
  /\ a0 = a
  /\ StackNew
  /\ RestNew
  /\ SlotsNew
  /\ a_max = 0

\* one list, any of its cubes marked as deleted
InitFlags ==
  /\ \E v \in 1 .. MaxVars : \E k \in 0 .. Min(MaxLen, MaxCellsAB \div v) :
       /\ p = bcp_New(v)
       /\ \E cs \in [1 .. k -> LegalCubes(bcp_New(v))] : \E fs \in [1 .. k -> {0, 1}] :
            a = [cnt |-> k, list |-> cs, flags |-> fs]
  /\ b = bcp_NewBCL(p)
  /\ r = bcp_NewBCL(p)
  /\ ret = 0
  /\ pc = "idle"
  /\ a0 = a
  /\ StackNew
  /\ RestNew
  /\ SlotsNew
  /\ a_max = 0
  /\ str = <<>>

\* the lists a command can bring along as "bcl"
ArgLists(q) ==
  {ListOf(cs) : cs \in UNION {[1 .. n -> LegalCubes(q)] : n \in 0 .. (MaxSlotCells \div q.var_cnt)}}

\* bc_ExecuteVector before the first command: all slots NULL; the slots
\* followed are slot 0 and one other slot
InitSlots ==
  /\ \E v \in 1 .. MaxSlotVars : p = bcp_New(v)
  /\ \E k \in 1 .. Min(MaxSlot, SLOT_CNT - 1) : slot_list = [s \in {0, k} |-> 0]
  /\ heap = <<>>
  /\ copied = [valid |-> FALSE]
  /\ a = bcp_NewBCL(p)
  /\ b = bcp_NewBCL(p)
  /\ r = bcp_NewBCL(p)
  /\ ret = 0
  /\ pc = "cmd"
  /\ a0 = a
  /\ StackNew
  /\ RestNew
  /\ a_max = 0
  /\ str = <<>>

\* the outermost call bcp_IsBCLTautologySub(p, l, 0) of either build
InitDepth ==
  /\ p = bcp_New(MaxVars)
  /\ a = bcp_NewBCL(p)
  /\ b = bcp_NewBCL(p)
  /\ r = bcp_NewBCL(p)
  /\ ret = 0
  /\ pc = "call"
  /\ a0 = a
  /\ StackNew
  /\ SlotsNew
  /\ a_max = 0
  /\ str = <<>>
  /\ build \in {"src/bc/bcltautology.c", "src/unnamed/part_002"}
  /\ is_empty = -1
  /\ is_0_superset = -1
  /\ is_0_subset = -1
  /\ output = NoEntry
  /\ CallNew

\* two lists of the same problem
InitAB ==
  /\ \E v \in 1 .. MaxVars :
       \E ka \in 0 .. Min(MaxLen, MaxCellsAB \div v) :
         \E kb \in 0 .. Min(MaxLen, (MaxCellsAB \div v) - ka) :
           /\ p = bcp_New(v)
           /\ \E cs \in [1 .. ka -> LegalCubes(bcp_New(v))] : a = ListOf(cs)
           /\ \E cs \in [1 .. kb -> LegalCubes(bcp_New(v))] : b = ListOf(cs)
  /\ r = bcp_NewBCL(p)
  /\ ret = 0
  /\ pc = "idle"
  /\ a0 = a
  /\ StackNew
  /\ RestNew
  /\ SlotsNew
  /\ a_max = 0
  /\ str = <<>>

IsTautology ==
  /\ pc = "idle"
  /\ ret' = bcp_IsBCLTautology(p, a)
  /\ pc' = "tautology"
  /\ UNCHANGED <<p, a, b, r, a0, aux>>

ComplementWithSubtract ==
  /\ pc = "idle"
  /\ r' = bcp_NewBCLComplementWithSubtract(p, a)
  /\ pc' = "complement_subtract"
  /\ UNCHANGED <<p, a, b, ret, a0, aux>>

ComplementWithCofactor ==
  /\ pc = "idle"
  /\ r' = bcp_NewBCLComplementWithCofactor(p, a)
  /\ pc' = "complement_cofactor"
  /\ UNCHANGED <<p, a, b, ret, a0, aux>>

MultiCubeContainment ==
  /\ pc = "idle"
  /\ a' = bcp_DoBCLMultiCubeContainment(p, a)
  /\ pc' = "mcc"
  /\ UNCHANGED <<p, b, r, ret, a0, aux>>

SingleCubeContainment ==
  /\ pc = "idle"
  /\ a' = bcp_DoBCLSingleCubeContainment(p, a)
  /\ pc' = "scc"
  /\ UNCHANGED <<p, b, r, ret, a0, aux>>

SimpleExpand ==
  /\ pc = "idle"
  /\ a' = bcp_DoBCLSimpleExpand(p, a)
  /\ pc' = "simple_expand"
  /\ UNCHANGED <<p, b, r, ret, a0, aux>>

\* "subtract0" without "bcl" and "expr" and with slot 0, the list a being
\* the list of slot 0: arg is slot_list[0]; subtract_result is read by the
\* assert without ever being written
Subtract0SameList ==
  /\ pc = "idle"
  /\ a' = bcp_SubtractBCLSameList(p, a, 1)
  /\ \E subtract_result \in {0, 1} :
       pc' = IF subtract_result # 0 THEN "subtract0_same" ELSE "abort"
  /\ UNCHANGED <<p, b, r, ret, a0, aux>>

Subtract ==
  /\ pc = "idle"
  /\ \E is_mcc \in {0, 1} :
       /\ a' = bcp_SubtractBCL(p, a, b, is_mcc)
       /\ ret' = is_mcc
  /\ pc' = "subtract"
  /\ UNCHANGED <<p, b, r, a0, aux>>

\* one call of bcp_DoBCLSharpOperation: cube i of b is subtracted from cube
\* j of a, and the cubes are appended to a copy of a
SharpOperation ==
  /\ pc = "idle"
  /\ \E j \in 0 .. (a.cnt - 1) : \E i \in 0 .. (b.cnt - 1) :
       /\ r' = bcp_DoBCLSharpOperation(p, bcp_NewBCLByBCL(p, a),
                 bcp_GetBCLCube(p, a, j), bcp_GetBCLCube(p, b, i))
       /\ arg_var' = j
       /\ arg_value' = i
  /\ pc' = "sharp"
  /\ UNCHANGED <<p, a, b, ret, a0, stackvars, a_max, str, slotvars, build, jsonvars, tab, ret_simple>>

IntersectionInto ==
  /\ pc = "idle"
  /\ r' = bcp_IntersectionBCLs(p, r, a, b)
  /\ ret' = 1
  /\ pc' = "intersection_into"
  /\ UNCHANGED <<p, a, b, a0, aux>>

Intersection ==
  /\ pc = "idle"
  /\ a' = bcp_IntersectionBCL(p, a, b)
  /\ ret' = 1
  /\ pc' = "intersection"
  /\ UNCHANGED <<p, b, r, a0, aux>>

IsSubsetWithCofactor ==
  /\ pc = "idle"
  /\ ret' = bcp_IsBCLSubsetWithCofactor(p, a, b)
  /\ pc' = "subset_cofactor"
  /\ UNCHANGED <<p, a, b, r, a0, aux>>

IsSubsetWithSubstract ==
  /\ pc = "idle"
  /\ ret' = bcp_IsBCLSubsetWithSubstract(p, a, b)
  /\ pc' = "subset_subtract"
  /\ UNCHANGED <<p, a, b, r, a0, aux>>

Minimize ==
  /\ pc = "idle"
  /\ a' = bcp_MinimizeBCL(p, a)
  /\ pc' = "minimize"
  /\ UNCHANGED <<p, b, r, ret, a0, aux>>

\* the cubes of a are expanded against the off-set b
ExpandWithOffSet ==
  /\ pc = "idle"
  /\ a' = bcp_DoBCLExpandWithOffSet(p, a, b)
  /\ pc' = "expand"
  /\ UNCHANGED <<p, b, r, ret, a0, aux>>

\* bcp_ExtendBCL on the arena: the first call allocates, a later call
\* reallocates, and realloc either extends the block in place or moves it
bcp_ExtendBCL(l, moved) ==
  [cnt  |-> l.cnt,
   max  |-> l.max + BCL_EXTEND,
   list |-> IF l.list = 0 THEN 1 ELSE IF moved THEN l.list + 1 ELSE l.list]

\* the while loop of bcp_AddBCLCube
RECURSIVE AddBCLCubeExtend(_, _)
AddBCLCubeExtend(l, moved) ==
  IF l.max <= l.cnt THEN AddBCLCubeExtend(bcp_ExtendBCL(l, moved), moved) ELSE l

\* the arena after bcp_AddBCLCube; the position returned is cnt - 1
bcp_AddBCLCube(l, moved) ==
  LET l1 == AddBCLCubeExtend(l, moved)
  IN  [l1 EXCEPT !.cnt = l1.cnt + 1]

StartCubeStackFrame ==
  /\ stack_depth < BCP_MAX_STACK_FRAME_DEPTH
  /\ stack_depth < MaxStackDepth
  /\ stack_frame_pos' = [i \in 1 .. (stack_depth + 1) |->
                           IF i = stack_depth + 1 THEN stack_cube_list.cnt
                           ELSE stack_frame_pos[i]]
  /\ stack_depth' = stack_depth + 1
  /\ pc' = "start_frame"
  /\ UNCHANGED <<p, a, b, r, ret, a0, a_max, str, slotvars, stack_cube_list, temps, restvars>>

\* faulty variant: the arena is cut to one cube less than the frame saved
EndCubeStackFrameOneLess ==
  /\ stack_depth > 0
  /\ stack_depth' = stack_depth - 1
  /\ stack_cube_list' =
       [stack_cube_list EXCEPT !.cnt = IF stack_frame_pos[stack_depth] > 0
                                       THEN stack_frame_pos[stack_depth] - 1 ELSE 0]
  /\ stack_frame_pos' = SubSeq(stack_frame_pos, 1, stack_depth - 1)
  /\ temps' = SelectSeq(temps, LAMBDA t : t.depth < stack_depth)
  /\ pc' = "end_frame"
  /\ UNCHANGED <<p, a, b, r, ret, a0, a_max, str, slotvars, restvars>>

\* the temp cubes of the frame are given up by their holder
EndCubeStackFrame ==
  /\ stack_depth > 0
  /\ stack_depth' = stack_depth - 1
  /\ stack_cube_list' = [stack_cube_list EXCEPT !.cnt = stack_frame_pos[stack_depth]]
  /\ stack_frame_pos' = SubSeq(stack_frame_pos, 1, stack_depth - 1)
  /\ temps' = SelectSeq(temps, LAMBDA t : t.depth < stack_depth)
  /\ pc' = "end_frame"
  /\ UNCHANGED <<p, a, b, r, ret, a0, a_max, str, slotvars, restvars>>

\* the pointer returned is list + (cnt - 1) * bytes_per_cube_cnt
GetTempCube ==
  /\ stack_depth > 0
  /\ stack_cube_list.cnt < MaxTempCubes
  /\ \E moved \in BOOLEAN :
       LET l == bcp_AddBCLCube(stack_cube_list, moved)
           i == l.cnt - 1
       IN  /\ i >= stack_frame_pos[stack_depth]
           /\ stack_cube_list' = l
           /\ temps' = Append(temps, [list |-> l.list, pos |-> i, depth |-> stack_depth])
  /\ pc' = "get_temp_cube"
  /\ UNCHANGED <<p, a, b, r, ret, a0, a_max, str, slotvars, stack_frame_pos, stack_depth, restvars>>

\* bcp_AddBCLCubeByCube(p, l, c) where c points to the cube at cube_pos of
\* l itself. When the storage is full, bcp_ExtendBCL reallocates it; if
\* realloc moves the block, c points into the released block and the cube
\* copied from there is any cube word
AddBCLCubeByOwnCube(q, l, max, cube_pos, moved, released) ==
  LET extend == max <= l.cnt
      c == IF extend /\ moved THEN released ELSE bcp_GetBCLCube(q, l, cube_pos)
  IN  [l   |-> bcp_AddBCLCubeByCube(q, l, c),
       max |-> IF extend THEN max + BCL_EXTEND ELSE max]

\* the body of "if ( value == 3 )": the cube gets zero at var_pos, its copy
\* is added and gets one at var_pos
GenSplit(q, l, max, cube_pos, var_pos, moved, released) ==
  LET l1 == SetBCLCube(l, cube_pos,
              bcp_SetCubeVar(q, bcp_GetBCLCube(q, l, cube_pos), var_pos, 1))
      n  == AddBCLCubeByOwnCube(q, l1, max, cube_pos, moved, released)
      new_pos == n.l.cnt - 1
  IN  [l   |-> SetBCLCube(n.l, new_pos,
                 bcp_SetCubeVar(q, bcp_GetBCLCube(q, n.l, new_pos), var_pos, 2)),
       max |-> n.max]

\* one round of the first for(;;) of bcp_NewBCLWithRandomTautology
GenStep ==
  /\ pc = "gen_loop"
  /\ \E cube_pos \in 0 .. (a.cnt - 1) : \E var_pos \in VarPos(p) :
     \E moved \in (IF a_max <= a.cnt THEN BOOLEAN ELSE {FALSE}) :
     \E released \in (IF moved THEN [VarPos(p) -> 0 .. 3]
                      ELSE {bcp_GetBCLCube(p, a, cube_pos)}) :
       LET value == bcp_GetCubeVar(p, bcp_GetBCLCube(p, a, cube_pos), var_pos)
           n == IF value = 3
                THEN GenSplit(p, a, a_max, cube_pos, var_pos, moved, released)
                ELSE [l |-> a, max |-> a_max]
       IN  /\ a' = n.l
           /\ a_max' = n.max
           /\ pc' = IF n.l.cnt >= ret THEN "gen_done" ELSE "gen_loop"
  /\ UNCHANGED <<p, b, r, ret, a0, stackvars, str, slotvars, restvars>>

\* bcp_MinimizeBCL on the list the generator returned; a0 keeps that list
MinimizeGenerated ==
  /\ pc = "gen_done"
  /\ a' = bcp_MinimizeBCL(p, a)
  /\ a0' = a
  /\ pc' = "gen_minimize"
  /\ UNCHANGED <<p, b, r, ret, aux>>

\* main1: the cubes of the string are added to the new list
AddCubesByString ==
  /\ pc = "string"
  /\ a' = bcp_AddBCLCubesByString(p, a, str)
  /\ a0' = a'
  /\ pc' = "parsed"
  /\ UNCHANGED <<p, b, r, ret, aux>>

\* main1: bcp_DoBCLMultiCubeContainment on the list read from the string
MultiCubeContainmentParsed ==
  /\ pc = "parsed"
  /\ a' = bcp_DoBCLMultiCubeContainment(p, a)
  /\ pc' = "parsed_mcc"
  /\ UNCHANGED <<p, b, r, ret, a0, aux>>

\* the cube of a is written to cube_to_str
GetStringFromCube ==
  /\ pc = "cube"
  /\ str' = bcp_GetStringFromCube(p, bcp_GetBCLCube(p, a, 0))
  /\ pc' = "encoded"
  /\ UNCHANGED <<p, a, b, r, ret, a0, stackvars, a_max, slotvars, restvars>>

\* a new cube of r is set from the string
SetCubeByString ==
  /\ pc = "encoded"
  /\ r' = bcp_AddBCLCubeByCube(p, r,
             bcp_SetCubeByString(p, bcp_GetGlobalCube3(p), str))
  /\ pc' = "decoded"
  /\ UNCHANGED <<p, a, b, ret, a0, aux>>

Purge ==
  /\ pc = "idle"
  /\ a' = bcp_PurgeBCL(p, a)
  /\ pc' = "purge"
  /\ UNCHANGED <<p, b, r, ret, a0, aux>>

\* bcp_NewBCLCofacter: the cofactor of a by one variable and one value, as
\* a new list
NewBCLCofacter ==
  /\ pc = "idle"
  /\ \E var_pos \in VarPos(p) : \E value \in {1, 2} :
       /\ r' = bcp_NewBCLCofacterByVariable(p, a, var_pos, value)
       /\ arg_var' = var_pos
       /\ arg_value' = value
  /\ pc' = "cofactor"
  /\ UNCHANGED <<p, a, b, ret, a0, stackvars, a_max, str, slotvars, build, jsonvars, tab, ret_simple>>

\* bcp_CalcBCLBinateSplitVariableTable on the list a
CalcBCLBinateSplitVariableTable ==
  /\ pc = "idle"
  /\ tab' = bcp_CalcBCLBinateSplitVariableTable(p, a)
  /\ pc' = "counted"
  /\ UNCHANGED <<p, a, b, r, ret, a0, stackvars, a_max, str, slotvars, build, jsonvars, arg_var, arg_value, ret_simple>>

\* the counters a list of CountedCubes cubes can leave behind
CounterValues == {0, 1, 2, CountedCubes \div 2 - 1, CountedCubes \div 2}

\* the state after bcp_CalcBCLBinateSplitVariableTable was called for a list
\* of CountedCubes cubes: per variable, any number of the cubes has the
\* code 01 and any number of the others the code 10
InitTable ==
  /\ \E v \in 1 .. MaxVars :
       /\ p = bcp_New(v)
       /\ \E zs \in [VarPos(bcp_New(v)) -> CounterValues] :
            \E os \in [VarPos(bcp_New(v)) -> CounterValues] :
              tab = [var_cnt |-> v, zero_cnt |-> zs, one_cnt |-> os]
  /\ a = bcp_NewBCL(p)
  /\ b = bcp_NewBCL(p)
  /\ r = bcp_NewBCL(p)
  /\ ret = -1
  /\ pc = "counted"
  /\ a0 = a
  /\ StackNew
  /\ SlotsNew
  /\ a_max = 0
  /\ str = <<>>
  /\ build = "none"
  /\ is_empty = -1
  /\ is_0_superset = -1
  /\ is_0_subset = -1
  /\ output = NoEntry
  /\ arg_var = -1
  /\ arg_value = 0
  /\ ret_simple = -1

\* the search for the split variable on the table, by the SIMD function and
\* by the scalar function
GetBCLMaxBinateSplitVariable ==
  /\ pc = "counted"
  /\ ret' = bcp_GetBCLMaxBinateSplitVariable(tab, a)
  /\ ret_simple' = bcp_GetBCLMaxBinateSplitVariableSimple(tab, a)
  /\ pc' = "split_var"
  /\ UNCHANGED <<p, a, b, r, a0, stackvars, a_max, str, slotvars, build, jsonvars, arg_var, arg_value, tab>>

\* ------------------------------------------------------ bc_ExecuteVector
\* the address malloc returns for a new list: one that is not in use
NewAddress(h) == CHOOSE n \in 1 .. (Cardinality(DOMAIN h) + 1) : n \notin DOMAIN h

HeapSet(h, addr, l) == [x \in (DOMAIN h) \cup {addr} |-> IF x = addr THEN l ELSE h[x]]

\* the list at an address; no command leaves the address of a deleted list
\* in a slot, for such an address the list read is empty
HeapGet(h, addr) ==
  IF addr \in DOMAIN h THEN h[addr] ELSE [cnt |-> 0, list |-> <<>>, flags |-> <<>>]

\* bcp_DeleteBCL
HeapFree(h, addr) == [x \in (DOMAIN h) \ {addr} |-> h[x]]

\* The value of an address is of no effect, only which pointers are equal:
\* after each command the addresses are renamed, a list gets the address
\* 1 + s for the first slot s that points to it
CanonAddress(sl, s) ==
  IF sl[s] = 0 THEN 0
  ELSE 1 + (CHOOSE t \in DOMAIN sl :
              sl[t] = sl[s] /\ \A u \in DOMAIN sl : sl[u] = sl[s] => t <= u)

CanonSlots(sl) == [s \in DOMAIN sl |-> CanonAddress(sl, s)]

CanonHeap(sl, h) ==
  [x \in {CanonAddress(sl, s) : s \in {t \in DOMAIN sl : sl[t] # 0}} |->
     HeapGet(h, sl[CHOOSE s \in DOMAIN sl : sl[s] # 0 /\ CanonAddress(sl, s) = x])]

\* the commands end the frame of an earlier copy0 when they store another
\* list in its slot
CopiedAfter(slot) ==
  IF copied.valid /\ slot # copied.slot
  THEN [copied EXCEPT !.at_copy = FALSE]
  ELSE [valid |-> FALSE]

\* "bcl2slot": the list read from "bcl" is stored in the slot, the list the
\* slot held is deleted
Bcl2Slot ==
  /\ pc # "abort"
  /\ \E slot \in DOMAIN slot_list : \E l \in ArgLists(p) :
       LET addr == NewAddress(heap)
           h1 == HeapSet(heap, addr, l)
           h2 == IF slot_list[slot] # 0 THEN HeapFree(h1, slot_list[slot]) ELSE h1
           sl == [slot_list EXCEPT ![slot] = addr]
       IN  /\ heap' = CanonHeap(sl, h2)
           /\ slot_list' = CanonSlots(sl)
           /\ copied' = CopiedAfter(slot)
  /\ pc' = "bcl2slot"
  /\ UNCHANGED <<p, a, b, r, ret, a0, stackvars, a_max, str, restvars>>

\* the lists of the slots other than slot 0 that hold one
SlotArgs == {HeapGet(heap, slot_list[s]) : s \in {t \in (DOMAIN slot_list) \ {0} : slot_list[t] # 0}}

\* "intersection0": slot 0 = slot 0 intersected with arg, where arg is the
\* list of "bcl" or the list of the other slot; intersection_result is
\* read by the assert without ever being written
Intersection0 ==
  /\ pc # "abort"
  /\ slot_list[0] # 0
  /\ \E arg \in ArgLists(p) \cup SlotArgs : \E intersection_result \in {0, 1} :
       /\ heap' = HeapSet(heap, slot_list[0],
                     bcp_IntersectionBCL(p, HeapGet(heap, slot_list[0]), arg))
       /\ pc' = IF intersection_result # 0 THEN "intersection0" ELSE "abort"
  /\ copied' = CopiedAfter(0)
  /\ UNCHANGED <<p, a, b, r, ret, a0, stackvars, a_max, str, slot_list, restvars>>

\* "subtract0": slot 0 = slot 0 minus arg; subtract_result is read by the
\* assert without ever being written
Subtract0 ==
  /\ pc # "abort"
  /\ slot_list[0] # 0
  /\ \E arg \in ArgLists(p) \cup SlotArgs : \E subtract_result \in {0, 1} :
       /\ heap' = HeapSet(heap, slot_list[0],
                     bcp_SubtractBCL(p, HeapGet(heap, slot_list[0]), arg, 1))
       /\ pc' = IF subtract_result # 0 THEN "subtract0" ELSE "abort"
  /\ copied' = CopiedAfter(0)
  /\ UNCHANGED <<p, a, b, r, ret, a0, stackvars, a_max, str, slot_list, restvars>>

\* "exchange0": the pointers of slot 0 and the slot are swapped
Exchange0 ==
  /\ pc # "abort"
  /\ slot_list[0] # 0
  /\ \E slot \in DOMAIN slot_list :
       /\ slot_list[slot] # 0
       /\ LET sl == [slot_list EXCEPT ![slot] = slot_list[0], ![0] = slot_list[slot]]
          IN  /\ slot_list' = CanonSlots(sl)
              /\ heap' = CanonHeap(sl, heap)
       /\ copied' = IF slot = 0 THEN CopiedAfter(0) ELSE [valid |-> FALSE]
  /\ pc' = "exchange0"
  /\ UNCHANGED <<p, a, b, r, ret, a0, stackvars, a_max, str, restvars>>

\* faulty variant: the slot gets the pointer of slot 0
Copy0SharesList ==
  /\ pc # "abort"
  /\ slot_list[0] # 0
  /\ \E slot \in DOMAIN slot_list :
       /\ LET sl == [slot_list EXCEPT ![slot] = slot_list[0]]
          IN  /\ slot_list' = CanonSlots(sl)
              /\ heap' = CanonHeap(sl, heap)
       /\ copied' = IF slot = 0 THEN CopiedAfter(0)
                    ELSE [valid |-> TRUE, at_copy |-> TRUE, slot |-> slot,
                          list0 |-> HeapGet(heap, slot_list[0])]
  /\ pc' = "copy0"
  /\ UNCHANGED <<p, a, b, r, ret, a0, stackvars, a_max, str, restvars>>

\* "copy0": the slot gets a new list if it is NULL, then bcp_CopyBCL copies
\* the list of slot 0 into the list of the slot
Copy0 ==
  /\ pc # "abort"
  /\ slot_list[0] # 0
  /\ \E slot \in DOMAIN slot_list :
       LET addr == IF slot_list[slot] = 0 THEN NewAddress(heap) ELSE slot_list[slot]
           h1 == IF slot_list[slot] = 0 THEN HeapSet(heap, addr, bcp_NewBCL(p)) ELSE heap
           sl == [slot_list EXCEPT ![slot] = addr]
       IN  /\ slot_list' = CanonSlots(sl)
           /\ heap' = CanonHeap(sl, HeapSet(h1, addr, bcp_CopyBCL(p, HeapGet(h1, addr), HeapGet(h1, slot_list[0]))))
           /\ copied' = IF slot = 0 THEN CopiedAfter(0)
                        ELSE [valid |-> TRUE, at_copy |-> TRUE, slot |-> slot,
                              list0 |-> HeapGet(heap, slot_list[0])]
  /\ pc' = "copy0"
  /\ UNCHANGED <<p, a, b, r, ret, a0, stackvars, a_max, str, restvars>>

\* ------------------------------------------- depth of the tautology recursion
\* the bound in the assert at the top of bcp_IsBCLTautologySub
TautologyDepthLimit(bld) ==
  IF bld = "src/unnamed/part_002" THEN TautologyDepthPart002 ELSE TautologyDepth

\* assert(depth < limit) of the call at depth ret
TautologySubAssert ==
  /\ pc = "call"
  /\ pc' = IF ret < TautologyDepthLimit(build) THEN "body" ELSE "abort"
  /\ UNCHANGED <<p, a, b, r, ret, a0, aux>>

\* the list is binate: bcp_IsBCLTautologySub(p, f1, depth+1) or (p, f2, depth+1)
TautologySubRecurse ==
  /\ pc = "body"
  /\ ret' = ret + 1
  /\ pc' = "call"
  /\ UNCHANGED <<p, a, b, r, a0, aux>>

\* the call returns 0 or 1, to its caller or as the answer of the outermost call
TautologySubReturn ==
  /\ pc = "body"
  /\ IF ret = 0 THEN pc' = "answer" /\ ret' = ret
                ELSE pc' = "body" /\ ret' = ret - 1
  /\ UNCHANGED <<p, a, b, r, a0, aux>>

\* STEP 3 of bc_ExecuteVector: the entry e a command with "label" or
\* "label0" adds to the output map, as the set of its keys and the values
\* of the numeric keys; slot 0 holds a list whenever a command runs here
JsonEntry(kind, i, empty, superset, subset) ==
  IF kind = "none" THEN NoEntry
  ELSE [keys     |-> {"index"}
                       \cup (IF empty >= 0 THEN {"empty"} ELSE {})
                       \cup (IF superset >= 0 THEN {"superset"} ELSE {})
                       \cup (IF subset >= 0 THEN {"subset"} ELSE {})
                       \cup (IF kind = "label0" THEN {"bcl"} ELSE {}),
        index    |-> i,
        empty    |-> empty,
        superset |-> superset,
        subset   |-> subset]

LabelKinds == {"none", "label", "label0"}

\* bc_ExecuteVector after a first command "bcl2slot" without label has put
\* a list into slot 0; a is the list of slot 0 and ret the index i of the
\* next command
InitJson ==
  /\ \E v \in 1 .. MaxSlotVars :
       /\ p = bcp_New(v)
       /\ a \in ArgLists(bcp_New(v))
  /\ b = bcp_NewBCL(p)
  /\ r = bcp_NewBCL(p)
  /\ ret = 1
  /\ pc = "bcl2slot"
  /\ a0 = a
  /\ StackNew
  /\ RestNew
  /\ SlotsNew
  /\ a_max = 0
  /\ str = <<>>

\* one round of the command loop for "bcl2slot" with "bcl" and slot 0
CmdBcl2Slot ==
  /\ pc # "abort"
  /\ ret < MaxCmds
  /\ \E kind \in LabelKinds : \E l \in ArgLists(p) :
       /\ a' = l
       /\ is_empty' = -1
       /\ output' = JsonEntry(kind, ret, -1, is_0_superset, is_0_subset)
  /\ ret' = ret + 1
  /\ pc' = "bcl2slot"
  /\ UNCHANGED <<p, b, r, a0, stackvars, a_max, str, slotvars, build, is_0_superset, is_0_subset, callvars>>

\* one round of the command loop for "show" with "bcl"
CmdShow ==
  /\ pc # "abort"
  /\ ret < MaxCmds
  /\ \E kind \in LabelKinds :
       /\ is_empty' = -1
       /\ output' = JsonEntry(kind, ret, -1, is_0_superset, is_0_subset)
  /\ ret' = ret + 1
  /\ pc' = "show"
  /\ UNCHANGED <<p, a, b, r, a0, stackvars, a_max, str, slotvars, build, is_0_superset, is_0_subset, callvars>>

\* one round of the command loop for "intersection0" with "bcl";
\* intersection_result is read by the assert without ever being written
CmdIntersection0 ==
  /\ pc # "abort"
  /\ ret < MaxCmds
  /\ \E kind \in LabelKinds : \E l \in ArgLists(p) : \E intersection_result \in {0, 1} :
       /\ a' = bcp_IntersectionBCL(p, a, l)
       /\ IF intersection_result # 0
          THEN /\ is_empty' = IF a'.cnt = 0 THEN 1 ELSE 0
               /\ output' = JsonEntry(kind, ret, is_empty', is_0_superset, is_0_subset)
               /\ ret' = ret + 1
               /\ pc' = "intersection0"
          ELSE /\ is_empty' = -1
               /\ pc' = "abort"
               /\ UNCHANGED <<output, ret>>
  /\ UNCHANGED <<p, b, r, a0, stackvars, a_max, str, slotvars, build, is_0_superset, is_0_subset, callvars>>

\* one round of the command loop for "subtract0" with "bcl"; subtract_result
\* is read by the assert without ever being written
CmdSubtract0 ==
  /\ pc # "abort"
  /\ ret < MaxCmds
  /\ \E kind \in LabelKinds : \E l \in ArgLists(p) : \E subtract_result \in {0, 1} :
       /\ a' = bcp_SubtractBCL(p, a, l, 1)
       /\ IF subtract_result # 0
          THEN /\ is_empty' = IF a'.cnt = 0 THEN 1 ELSE 0
               /\ output' = JsonEntry(kind, ret, is_empty', is_0_superset, is_0_subset)
               /\ ret' = ret + 1
               /\ pc' = "subtract0"
          ELSE /\ is_empty' = -1
               /\ pc' = "abort"
               /\ UNCHANGED <<output, ret>>
  /\ UNCHANGED <<p, b, r, a0, stackvars, a_max, str, slotvars, build, is_0_superset, is_0_subset, callvars>>

\* one round of the command loop for "equal0" with "bcl"
CmdEqual0 ==
  /\ pc # "abort"
  /\ ret < MaxCmds
  /\ \E kind \in LabelKinds : \E l \in ArgLists(p) :
       /\ is_empty' = -1
       /\ is_0_superset' = bcp_IsBCLSubset(p, a, l)
       /\ is_0_subset' = bcp_IsBCLSubset(p, l, a)
       /\ output' = JsonEntry(kind, ret, -1, is_0_superset', is_0_subset')
  /\ ret' = ret + 1
  /\ pc' = "equal0"
  /\ UNCHANGED <<p, a, b, r, a0, stackvars, a_max, str, slotvars, build, callvars>>

NextJson ==
  \/ CmdBcl2Slot
  \/ CmdShow
  \/ CmdIntersection0
  \/ CmdSubtract0
  \/ CmdEqual0

SpecJson == InitJson /\ [][NextJson]_vars

Next ==
  \/ IsTautology
  \/ MultiCubeContainment
  \/ SingleCubeContainment
  \/ SimpleExpand
  \/ Subtract0SameList

NextC ==
  \/ ComplementWithSubtract
  \/ ComplementWithCofactor

NextM ==
  \/ Minimize

NextStack ==
  \/ StartCubeStackFrame
  \/ GetTempCube
  \/ EndCubeStackFrame

NextGen ==
  \/ GenStep

NextGenMin ==
  \/ GenStep
  \/ MinimizeGenerated

NextStr ==
  \/ AddCubesByString
  \/ MultiCubeContainmentParsed
  \/ GetStringFromCube
  \/ SetCubeByString

NextPurge ==
  \/ Purge
  \/ NewBCLCofacter
  \/ CalcBCLBinateSplitVariableTable

NextTable ==
  \/ GetBCLMaxBinateSplitVariable

NextSlots ==
  \/ Bcl2Slot
  \/ Intersection0
  \/ Subtract0
  \/ Exchange0
  \/ Copy0

NextDepth ==
  \/ TautologySubAssert
  \/ TautologySubRecurse
  \/ TautologySubReturn

NextAB ==
  \/ Subtract
  \/ IntersectionInto
  \/ Intersection
  \/ IsSubsetWithCofactor
  \/ IsSubsetWithSubstract
  \/ ExpandWithOffSet
  \/ SharpOperation

Spec == Init /\ [][Next]_vars

SpecC == InitC /\ [][NextC]_vars

SpecM == InitC /\ [][NextM]_vars

SpecStack == InitStack /\ [][NextStack]_vars

SpecGen == InitGenGrown /\ [][NextGen]_vars

SpecGenMin == InitGen /\ [][NextGenMin]_vars

SpecStr == InitStr /\ [][NextStr]_vars

SpecPurge == InitFlags /\ [][NextPurge]_vars

SpecSlots == InitSlots /\ [][NextSlots]_vars

SpecDepth == InitDepth /\ [][NextDepth]_vars

SpecTable == InitTable /\ [][NextTable]_vars

SpecAB == InitAB /\ [][NextAB]_vars

\* ================================================================= claims
\* a and r merged into one list, as bcp_AddBCLCubesByBCL(p, copy of x, y)
UnionList(q, x, y) == bcp_AddBCLCubesByBCL(q, bcp_NewBCLByBCL(q, x), y)

\* the minterms covered by the live cubes of l other than cube k
OthersDenote(q, l, k) ==
  {m \in Minterms(q) :
     \E j \in 0 .. (l.cnt - 1) :
       j # k /\ Flag(l, j) = 0 /\ CubeCovers(q, bcp_GetBCLCube(q, l, j), m)}

AllLive(l) == \A k \in 0 .. (l.cnt - 1) : Flag(l, k) = 0

\* C1: bcp_IsBCLTautology returns non-zero exactly when the cubes of the
\* list cover every one of the 2^var_cnt minterms
C1_TautologySound ==
  pc = "tautology" => ((ret # 0) <=> (Denotes(p, a) = Minterms(p)))

\* a tautology that no single cube shows: the recursion on a binate variable ran
C1_Witness ==
  /\ pc = "tautology"
  /\ ret = 1
  /\ p.var_cnt >= 2
  /\ a.cnt >= 3
  /\ HasTautologyCube(p, a, 0) = 0

C7_MccPreservesFunction ==
  pc = "mcc" => Denotes(p, a) = Denotes(p, a0)

\* two cubes removed in one call, none of them contained in a single other cube
C7_Witness ==
  /\ pc = "mcc"
  /\ a0.cnt - a.cnt >= 2
  /\ \A i, j \in 0 .. (a0.cnt - 1) :
       i # j => ~(CubeSet(p, bcp_GetBCLCube(p, a0, i)) \subseteq CubeSet(p, bcp_GetBCLCube(p, a0, j)))

\* C8: after bcp_DoBCLMultiCubeContainment no cube of the list is covered by
\* the union of the other cubes of the list
C8_MccIrredundant ==
  pc = "mcc" =>
    /\ AllLive(a)
    /\ \A k \in 0 .. (a.cnt - 1) :
         ~(CubeSet(p, bcp_GetBCLCube(p, a, k)) \subseteq OthersDenote(p, a, k))

\* a cube covered only by two others together was removed, the two remain
C8_Witness ==
  /\ pc = "mcc"
  /\ a.cnt >= 2
  /\ a.cnt < a0.cnt
  /\ bcp_DoBCLSingleCubeContainment(p, a0) = a0

\* C10: after bcp_DoBCLSingleCubeContainment no cube of the list is a subset
\* of or equal to another one, and a second call returns the same list
C10_SccIdempotent ==
  pc = "scc" =>
    /\ AllLive(a)
    /\ \A i, j \in 0 .. (a.cnt - 1) :
         i # j => ~(CubeSet(p, bcp_GetBCLCube(p, a, i)) \subseteq CubeSet(p, bcp_GetBCLCube(p, a, j)))
    /\ bcp_DoBCLSingleCubeContainment(p, a) = a

\* the call removed a cube properly contained in another and left several cubes
C10_Witness ==
  /\ pc = "scc"
  /\ a.cnt >= 2
  /\ a.cnt < a0.cnt
  /\ \A i, j \in 0 .. (a0.cnt - 1) :
       i # j => bcp_CompareCube(p, bcp_GetBCLCube(p, a0, i), bcp_GetBCLCube(p, a0, j)) # 0

\* the minterms common to cube i of x and cube j of y
PairSet(q, x, i, y, j) ==
  CubeSet(q, bcp_GetBCLCube(q, x, i)) \cap CubeSet(q, bcp_GetBCLCube(q, y, j))

\* C3: for either value of is_mcc, bcp_SubtractBCL leaves in a a list that
\* denotes the old a without b: it is inside the old a, bcp_IntersectionBCLs
\* of it with b leaves no cube, and together with b it covers the old a
C3_SubtractLaw ==
  pc = "subtract" =>
    /\ Denotes(p, a) = Denotes(p, a0) \ Denotes(p, b)
    /\ Denotes(p, a) \subseteq Denotes(p, a0)
    /\ bcp_IntersectionBCLs(p, bcp_NewBCL(p), a, b).cnt = 0
    /\ Denotes(p, a0) \subseteq (Denotes(p, a) \cup Denotes(p, b))
    /\ bcp_IsBCLSubset(p, UnionList(p, a, b), a0) # 0

\* two cubes subtracted with MCC on, part of a taken away and part of it left
C3_Witness ==
  /\ pc = "subtract"
  /\ ret = 1
  /\ b.cnt >= 2
  /\ a.cnt >= 2
  /\ Denotes(p, a) # Denotes(p, a0)

\* C4: after bcp_IntersectionBCLs(p, r, a, b) the list r denotes exactly the
\* minterms common to a and b: every non-empty intersection of a cube of a
\* with a cube of b is covered by a cube of r, and every cube of r is the
\* intersection of such a pair
C4_IntersectionExact ==
  pc = "intersection_into" =>
    /\ Denotes(p, r) = Denotes(p, a) \cap Denotes(p, b)
    /\ \A i \in 0 .. (a.cnt - 1) : \A j \in 0 .. (b.cnt - 1) :
         PairSet(p, a, i, b, j) # {} =>
           \E k \in 0 .. (r.cnt - 1) :
             PairSet(p, a, i, b, j) \subseteq CubeSet(p, bcp_GetBCLCube(p, r, k))
    /\ \A k \in 0 .. (r.cnt - 1) :
         \E i \in 0 .. (a.cnt - 1) : \E j \in 0 .. (b.cnt - 1) :
           /\ PairSet(p, a, i, b, j) # {}
           /\ CubeSet(p, bcp_GetBCLCube(p, r, k)) = PairSet(p, a, i, b, j)

\* C5: bcp_IntersectionBCL(p, a, b) and bcp_IntersectionBCL(p, b, a) leave
\* lists that denote the same set of minterms
C5_IntersectionCommutes ==
  pc = "intersection" =>
    Denotes(p, a) = Denotes(p, bcp_IntersectionBCL(p, b, a0))

\* C9: bcp_IsBCLSubsetWithCofactor(p, a, b) returns non-zero exactly when
\* bcp_SubtractBCL with is_mcc 1 empties a copy of b, and exactly when
\* every minterm of b is covered by a
C9_SubsetDuality ==
  pc = "subset_cofactor" =>
    /\ (ret # 0) <=> (bcp_SubtractBCL(p, bcp_NewBCLByBCL(p, b), a, 1).cnt = 0)
    /\ (ret # 0) <=> (bcp_IsBCLSubsetWithSubstract(p, a, b) # 0)
    /\ (ret # 0) <=> (Denotes(p, b) \subseteq Denotes(p, a))

\* b is inside a, but one cube of b is inside no single cube of a
C9_Witness ==
  /\ pc = "subset_cofactor"
  /\ ret = 1
  /\ a.cnt >= 2
  /\ \E j \in 0 .. (b.cnt - 1) : \A i \in 0 .. (a.cnt - 1) :
       ~(CubeSet(p, bcp_GetBCLCube(p, b, j)) \subseteq CubeSet(p, bcp_GetBCLCube(p, a, i)))

\* C11: the list left by bcp_MinimizeBCL covers the same minterms as the
\* list before the call
C11_MinimizePreservesFunction ==
  pc = "minimize" => Denotes(p, a) = Denotes(p, a0)

\* a cube was widened and a cube was removed
C11_Witness ==
  /\ pc = "minimize"
  /\ a.cnt >= 2
  /\ a.cnt < a0.cnt
  /\ bcp_DoBCLSingleCubeContainment(p, a0) = a0
  /\ \E k \in 0 .. (a.cnt - 1) : \A j \in 0 .. (a0.cnt - 1) :
       bcp_GetBCLCube(p, a, k) # bcp_GetBCLCube(p, a0, j)

\* C12: bcp_DoBCLExpandWithOffSet leaves the number of cubes and the flags
\* as they were, and the cube at every position covers the cube that was at
\* that position before the call
C12_ExpandMonotone ==
  pc = "expand" =>
    /\ a.cnt = a0.cnt
    /\ a.flags = a0.flags
    /\ \A i \in 0 .. (a0.cnt - 1) :
         /\ bcp_IsSubsetCube(p, bcp_GetBCLCube(p, a, i), bcp_GetBCLCube(p, a0, i)) # 0
         /\ CubeSet(p, bcp_GetBCLCube(p, a0, i)) \subseteq CubeSet(p, bcp_GetBCLCube(p, a, i))

\* one cube was widened, another was held back by a cube of the off-set, and
\* after the call one cube lies inside another
C12_Witness ==
  /\ pc = "expand"
  /\ b.cnt >= 1
  /\ \E i \in 0 .. (a.cnt - 1) : bcp_GetBCLCube(p, a, i) # bcp_GetBCLCube(p, a0, i)
  /\ \E i \in 0 .. (a.cnt - 1) :
       /\ bcp_GetBCLCube(p, a, i) = bcp_GetBCLCube(p, a0, i)
       /\ bcp_IsTautologyCube(p, bcp_GetBCLCube(p, a, i)) = 0
  /\ bcp_DoBCLSingleCubeContainment(p, a).cnt < a.cnt

\* C13: the length of the scratch arena is never below the saved length of
\* an active frame
C13_ArenaAboveFrames ==
  \A k \in 1 .. stack_depth : stack_cube_list.cnt >= stack_frame_pos[k]

\* an inner frame has ended; two frames are active, the inner of them was
\* started above temp cubes of the outer and holds temp cubes of its own
C13_Witness ==
  /\ pc = "end_frame"
  /\ stack_depth = 2
  /\ stack_frame_pos[2] > stack_frame_pos[1]
  /\ stack_cube_list.cnt > stack_frame_pos[2]
  /\ Len(temps) = stack_cube_list.cnt
  /\ stack_cube_list.cnt < stack_cube_list.max - 1

\* C14: every temp cube handed out in a frame that has not ended points into
\* the storage the arena has now, inside its length, and no two of them
\* point to the same cube
C14_TempCubesValid ==
  /\ \A i \in 1 .. Len(temps) :
       /\ temps[i].list = stack_cube_list.list
       /\ temps[i].pos < stack_cube_list.cnt
  /\ \A i, j \in 1 .. Len(temps) : i # j => temps[i].pos # temps[j].pos

\* C15: after every step of the generator's first loop the list covers
\* every minterm
C15_GeneratorTautology ==
  pc \in {"gen_loop", "gen_done"} => Denotes(p, a) = Minterms(p)

\* C17: minimizing a tautology the generator returned for size var_cnt + 2
\* leaves exactly one cube, the all-dontcare cube
C17_MinimizeGenerated ==
  (pc = "gen_minimize" /\ ret = p.var_cnt + 2 /\ Denotes(p, a0) = Minterms(p))
    => a = ListOf(<<bcp_GetGlobalCube3(p)>>)

\* a generated tautology of var_cnt + 2 cubes on three variables or more,
\* none of its cubes the all-dontcare cube, was minimized
C17_Witness ==
  /\ pc = "gen_minimize"
  /\ ret = p.var_cnt + 2
  /\ p.var_cnt >= 3
  /\ a0.cnt = p.var_cnt + 2
  /\ Denotes(p, a0) = Minterms(p)
  /\ \A k \in 0 .. (a0.cnt - 1) : bcp_IsTautologyCube(p, bcp_GetBCLCube(p, a0, k)) = 0
  /\ a.cnt = 1

\* C16: for the list "-11", "110", "11-", "0--" the multi cube containment
\* leaves exactly the cubes "0--", "11-" and "-11"
C16_Main1Primes ==
  (pc = "parsed_mcc" /\ str = Main1String) =>
    /\ AllLive(a)
    /\ a.cnt = 3
    /\ {bcp_GetBCLCube(p, a, k) : k \in 0 .. (a.cnt - 1)} =
         {bcp_SetCubeByString(p, bcp_GetGlobalCube3(p), <<"0", "-", "-">>),
          bcp_SetCubeByString(p, bcp_GetGlobalCube3(p), <<"1", "1", "-">>),
          bcp_SetCubeByString(p, bcp_GetGlobalCube3(p), <<"-", "1", "1">>)}

\* C16 as the code has it: the multi cube containment leaves exactly the
\* cubes "11-" and "0--", in this order; "110" is removed and so is "-11",
\* which "0--" and "11-" cover together
C16_Main1Irredundant ==
  (pc = "parsed_mcc" /\ str = Main1String) =>
    a = ListOf(<<bcp_SetCubeByString(p, bcp_GetGlobalCube3(p), <<"1", "1", "-">>),
                 bcp_SetCubeByString(p, bcp_GetGlobalCube3(p), <<"0", "-", "-">>)>>)

\* the four cubes of main1 were read and the containment has run
C16_Witness ==
  /\ pc = "parsed_mcc"
  /\ str = Main1String
  /\ p.var_cnt = 3
  /\ a0 = ListOf(<<bcp_SetCubeByString(p, bcp_GetGlobalCube3(p), <<"-", "1", "1">>),
                  bcp_SetCubeByString(p, bcp_GetGlobalCube3(p), <<"1", "1", "0">>),
                  bcp_SetCubeByString(p, bcp_GetGlobalCube3(p), <<"1", "1", "-">>),
                  bcp_SetCubeByString(p, bcp_GetGlobalCube3(p), <<"0", "-", "-">>)>>)
  /\ Denotes(p, a) = Denotes(p, a0)

\* C18: the string of a cube, read back, gives the same cube, and the
\* string shows the codes 00, 01, 10, 11 as x, 0, 1, -
C18_StringRoundTrip ==
  /\ pc = "decoded" => bcp_GetBCLCube(p, r, 0) = bcp_GetBCLCube(p, a, 0)
  /\ pc \in {"encoded", "decoded"} =>
       /\ Len(str) = p.var_cnt
       /\ \A i \in VarPos(p) :
            LET v == bcp_GetCubeVar(p, bcp_GetBCLCube(p, a, 0), i)
            IN  /\ v = 0 => str[i + 1] = "x"
                /\ v = 1 => str[i + 1] = "0"
                /\ v = 2 => str[i + 1] = "1"
                /\ v = 3 => str[i + 1] = "-"

\* a legal cube with a zero, a one and a dontcare went through the string
C18_Witness ==
  /\ pc = "decoded"
  /\ r.cnt = 1
  /\ \E i, j, k \in VarPos(p) :
       /\ bcp_GetCubeVar(p, bcp_GetBCLCube(p, r, 0), i) = 1
       /\ bcp_GetCubeVar(p, bcp_GetBCLCube(p, r, 0), j) = 2
       /\ bcp_GetCubeVar(p, bcp_GetBCLCube(p, r, 0), k) = 3

\* the cubes of l with flag 0, from position i on, in list order
RECURSIVE LiveCubesFrom(_, _, _)
LiveCubesFrom(q, l, i) ==
  IF i >= l.cnt THEN <<>>
  ELSE IF Flag(l, i) = 0
       THEN <<bcp_GetBCLCube(q, l, i)>> \o LiveCubesFrom(q, l, i + 1)
       ELSE LiveCubesFrom(q, l, i + 1)

\* C19: after the purge the list holds exactly the cubes that had flag 0, in
\* their order, cnt is their number and every flag of the list is 0
C19_PurgeKeepsLive ==
  pc = "purge" =>
    /\ a.list = LiveCubesFrom(p, a0, 0)
    /\ a.cnt = Cardinality({k \in 0 .. (a0.cnt - 1) : Flag(a0, k) = 0})
    /\ a.cnt = Len(a.list)
    /\ a.flags = [x \in 1 .. a.cnt |-> 0]

\* the first and the last cube were marked, two different cubes between them
\* were not
C19_Witness ==
  /\ pc = "purge"
  /\ a0.cnt >= 4
  /\ Flag(a0, 0) # 0
  /\ Flag(a0, a0.cnt - 1) # 0
  /\ a.cnt = 2
  /\ bcp_GetBCLCube(p, a, 0) # bcp_GetBCLCube(p, a, 1)

\* C20: directly after a copy0 into another slot, that slot and slot 0 both
\* hold the list slot 0 held before; and whatever commands change slot 0
\* afterwards, the other slot still holds that list
C20_CopyIsIndependent ==
  copied.valid =>
    /\ slot_list[copied.slot] # 0
    /\ HeapGet(heap, slot_list[copied.slot]) = copied.list0
    /\ copied.at_copy => HeapGet(heap, slot_list[0]) = copied.list0

\* after a copy0 of a list with cubes, subtract0 has changed slot 0
C20_Witness ==
  /\ copied.valid
  /\ pc = "subtract0"
  /\ copied.list0.cnt >= 1
  /\ slot_list[0] \in DOMAIN heap
  /\ HeapGet(heap, slot_list[0]) # copied.list0
  /\ Denotes(p, HeapGet(heap, slot_list[0])) # Denotes(p, copied.list0)

\* C21: a call of the tautology recursion below depth 2000 is not aborted
\* by the guard, and no call at depth 2000 or more gets past the guard
C21_DepthGuard ==
  /\ pc = "abort" => ret >= 2000
  /\ ret >= 2000 => pc \in {"call", "abort"}

\* C22: when off covers exactly the minterms the list does not cover, then
\* after the expansion every live cube of the list meets no live cube of
\* off, and with any one of its variables that is not dontcare set to
\* dontcare it meets a live cube of off
C22_ExpandedCubesArePrime ==
  (pc = "expand" /\ Denotes(p, b) = Minterms(p) \ Denotes(p, a0)) =>
    \A i \in 0 .. (a.cnt - 1) :
      Flag(a, i) = 0 =>
        /\ ~OffSetHit(p, bcp_GetBCLCube(p, a, i), b, 0)
        /\ \A v \in VarPos(p) :
             bcp_GetCubeVar(p, bcp_GetBCLCube(p, a, i), v) # 3 =>
               \E j \in 0 .. (b.cnt - 1) :
                 /\ Flag(b, j) = 0
                 /\ bcp_IsIntersectionCube(p,
                      bcp_SetCubeVar(p, bcp_GetBCLCube(p, a, i), v, 3),
                      bcp_GetBCLCube(p, b, j)) # 0

\* a cube was widened against an off-set that is not empty and still has a
\* variable that is not dontcare
C22_Witness ==
  /\ pc = "expand"
  /\ Denotes(p, b) = Minterms(p) \ Denotes(p, a0)
  /\ b.cnt >= 1
  /\ \E i \in 0 .. (a.cnt - 1) :
       /\ bcp_GetBCLCube(p, a, i) # bcp_GetBCLCube(p, a0, i)
       /\ \E v \in VarPos(p) : bcp_GetCubeVar(p, bcp_GetBCLCube(p, a, i), v) # 3

\* the cube the rule of the cofactor makes of cube c
CofactorRuleCube(q, c, var_pos) == bcp_SetCubeVar(q, c, var_pos, 3)

\* the live cubes of l the rule of the cofactor keeps
CofactorRuleKept(q, l, var_pos, value) ==
  {k \in 0 .. (l.cnt - 1) :
     /\ Flag(l, k) = 0
     /\ \/ bcp_GetCubeVar(q, bcp_GetBCLCube(q, l, k), var_pos) = 3
        \/ Or2(bcp_GetCubeVar(q, bcp_GetBCLCube(q, l, k), var_pos), value) = 3}

\* C23: the list the cofactor by a variable gives holds nothing but the
\* cubes the rule keeps (a cube with dontcare at the variable unchanged, a
\* cube whose value ORed with the polarity is dontcare with the variable
\* set to dontcare); every other live cube is dropped; a kept cube may only
\* be missing when the containment sweep found it inside another cube of
\* the result
C23_CofactorRule ==
  pc = "cofactor" =>
    /\ \A j \in 0 .. (r.cnt - 1) :
         Flag(r, j) = 0 =>
           \E k \in CofactorRuleKept(p, a, arg_var, arg_value) :
             bcp_GetBCLCube(p, r, j) = CofactorRuleCube(p, bcp_GetBCLCube(p, a, k), arg_var)
    /\ \A k \in CofactorRuleKept(p, a, arg_var, arg_value) :
         \E j \in 0 .. (r.cnt - 1) :
           /\ Flag(r, j) = 0
           /\ bcp_IsSubsetCube(p, bcp_GetBCLCube(p, r, j),
                CofactorRuleCube(p, bcp_GetBCLCube(p, a, k), arg_var)) # 0

\* the number of live cubes of l with the given code at variable i
LiveWithCode(q, l, i, code) ==
  Cardinality({j \in 0 .. (l.cnt - 1) :
                 Flag(l, j) = 0 /\ bcp_GetCubeVar(q, bcp_GetBCLCube(q, l, j), i) = code})

\* C24: after the count, for every variable the zero counter is the number
\* of live cubes with code 01 at the variable and the one counter the
\* number of live cubes with code 10; a cube with a flag is not counted
C24_CountsOnlyLiveCubes ==
  pc = "counted" =>
    \A i \in VarPos(p) :
      /\ tab.zero_cnt[i] = LiveWithCode(p, a, i, 1)
      /\ tab.one_cnt[i] = LiveWithCode(p, a, i, 2)

\* the variables with both counters positive
BinateVars(t) == {i \in 0 .. (t.var_cnt - 1) : t.zero_cnt[i] > 0 /\ t.one_cnt[i] > 0}

\* C25: with no counter saturated, the search returns the lowest variable
\* whose sum of the two counters is greatest among the variables with both
\* counters positive, it returns -1 exactly when there is no such variable,
\* and the scalar search returns the same index
C25_MaxBinateSplitVar ==
  (pc = "split_var"
   /\ \A i \in VarPos(p) : tab.zero_cnt[i] < 32767 /\ tab.one_cnt[i] < 32767) =>
    /\ (ret = -1) <=> (BinateVars(tab) = {})
    /\ ret # -1 =>
         /\ ret \in BinateVars(tab)
         /\ \A i \in BinateVars(tab) :
              /\ tab.zero_cnt[i] + tab.one_cnt[i] <= tab.zero_cnt[ret] + tab.one_cnt[ret]
              /\ tab.zero_cnt[i] + tab.one_cnt[i] = tab.zero_cnt[ret] + tab.one_cnt[ret]
                   => ret <= i
    /\ ret_simple = ret

\* the positions of the cubes the sharp call appended to the copy of a
SharpAppended == a.cnt .. (r.cnt - 1)

\* C26 as stated: no minterm is in two of the cubes one sharp call appended
C26_SharpCubesDisjoint ==
  pc = "sharp" =>
    \A k, m \in SharpAppended :
      k # m => CubeSet(p, bcp_GetBCLCube(p, r, k)) \cap CubeSet(p, bcp_GetBCLCube(p, r, m)) = {}

\* C26: the cubes one sharp call appended cover exactly the minterms of cube
\* a that are not in cube b, and the cubes that were in the list before the
\* call are unchanged
C26_SharpCubesCoverDifference ==
  pc = "sharp" =>
    /\ UNION {CubeSet(p, bcp_GetBCLCube(p, r, k)) : k \in SharpAppended}
         = CubeSet(p, bcp_GetBCLCube(p, a, arg_var)) \ CubeSet(p, bcp_GetBCLCube(p, b, arg_value))
    /\ \A k \in 0 .. (a.cnt - 1) :
         bcp_GetBCLCube(p, r, k) = bcp_GetBCLCube(p, a, k) /\ Flag(r, k) = Flag(a, k)

\* a call that appended two cubes which share a minterm, for cubes a and b
\* that share a minterm
C26_Witness ==
  /\ pc = "sharp"
  /\ r.cnt = a.cnt + 2
  /\ CubeSet(p, bcp_GetBCLCube(p, r, a.cnt)) \cap CubeSet(p, bcp_GetBCLCube(p, r, a.cnt + 1)) # {}
  /\ CubeSet(p, bcp_GetBCLCube(p, a, arg_var)) \cap CubeSet(p, bcp_GetBCLCube(p, b, arg_value)) # {}

\* the positions of the cubes of l that are equal to cube c
EqualTo(q, l, c) == {k \in 0 .. (l.cnt - 1) : bcp_CompareCube(q, bcp_GetBCLCube(q, l, k), c) = 0}

\* C27: the list after bcp_DoBCLSingleCubeContainment covers the same
\* minterms as the list before it, also when cubes of the list are equal:
\* a cube of the list before the call that is not properly inside another
\* cube is in the list after the call exactly once
C27_SccPreservesFunction ==
  pc = "scc" =>
    /\ Denotes(p, a) = Denotes(p, a0)
    /\ \A i \in 0 .. (a0.cnt - 1) :
         (\A j \in 0 .. (a0.cnt - 1) :
            CubeSet(p, bcp_GetBCLCube(p, a0, i)) \subseteq CubeSet(p, bcp_GetBCLCube(p, a0, j))
              => bcp_CompareCube(p, bcp_GetBCLCube(p, a0, i), bcp_GetBCLCube(p, a0, j)) = 0)
         => Cardinality(EqualTo(p, a, bcp_GetBCLCube(p, a0, i))) = 1

\* the list before the call held a cube twice and another cube that neither
\* contains it nor is inside it, and both are in the list after the call
C27_Witness ==
  /\ pc = "scc"
  /\ a.cnt = 2
  /\ \E i \in 0 .. (a0.cnt - 1) :
       /\ Cardinality(EqualTo(p, a0, bcp_GetBCLCube(p, a0, i))) >= 2
       /\ Cardinality(EqualTo(p, a, bcp_GetBCLCube(p, a0, i))) = 1

\* C28: the list after bcp_DoBCLSimpleExpand covers the same minterms as the
\* list of legal cubes before it
C28_SimpleExpandPreservesFunction ==
  pc = "simple_expand" => Denotes(p, a) = Denotes(p, a0)

\* the call widened a cube and removed a cube, and left two cubes or more
C28_Witness ==
  /\ pc = "simple_expand"
  /\ a.cnt >= 2
  /\ a.cnt < a0.cnt
  /\ \E i \in 0 .. (a.cnt - 1) : EqualTo(p, a0, bcp_GetBCLCube(p, a, i)) = {}

\* C29: after subtract0 with the list of slot 0 as its own argument the
\* list of slot 0 is empty
C29_SubtractSameListIsEmpty ==
  pc = "subtract0_same" => a.cnt = 0

\* C30: the entry of a command that ran to its end has the keys "superset"
\* and "subset" only when the command is equal0, and the key "empty" only
\* when the command is intersection0 or subtract0
C30_EntryKeysOfOwnCommand ==
  pc # "abort" =>
    /\ ("superset" \in output.keys \/ "subset" \in output.keys) => pc = "equal0"
    /\ "empty" \in output.keys => pc \in {"intersection0", "subtract0"}

====
